---- MODULE Spec2Model ----
(***************************************************************************)
(* Model of the WattsUp safety core: SafetyAnalyzer (safety_analyzer.py).  *)
(*                                                                         *)
(* Conventions                                                             *)
(*   - Optional values: Python None is the string None, a missing / NaN    *)
(*     cell of a DataFrame is the string NA, an attribute that was never   *)
(*     set (or was deleted) is the string NoAttr.  None of the three is a  *)
(*     string the program's callers can pass.                              *)
(*   - Scores are integers in hundredths (5.0 is 500), ratios and rates    *)
(*     are integers in thousandths (0.2 is 200), weights are in tenths     *)
(*     (3.0 is 30, 0.5 is 5).  round(x, k) is Python's round: to nearest,  *)
(*     exact binary ties to even.                                          *)
(*   - A DataFrame is a record: isNone (the attribute holds None), rows    *)
(*     (the sequence of its rows), and three history fields, fetch_id,     *)
(*     fetched_for and fetched_at, that name the upstream request whose    *)
(*     response the rows came from.                                        *)
(*   - created_date is a day number.  Coordinates are in thousandths of a  *)
(*     degree and all points of the model lie on one meridian, where the   *)
(*     haversine formula reduces to R * |dlat|; distances are in           *)
(*     millionths of a mile.  NaN is the coordinate NaN.                   *)
(***************************************************************************)
EXTENDS Integers, Sequences, FiniteSets, TLC

\* ------------------------------------------------------------------ bounds
MaxTime == 7199
MaxFetches == 2
MaxN == 7
MaxSpan == 8

\* ------------------------------------------------------- optional values
None == "<None>"
NA == "<NA>"
NoAttr == "<unset>"

\* ------------------------------------------------------------- categories
CategoryOrder == << "HIGH_CONCERN", "MEDIUM_CONCERN", "LOW_CONCERN", "INFRASTRUCTURE" >>

safety_categories ==
  [ HIGH_CONCERN |->
      [ weight |-> 30,
        types |-> << "Drug Activity", "Non-Emergency Police Matter", "Criminal Mischief",
                     "Harassment", "Assault", "Robbery", "Burglary", "Theft",
                     "Vandalism", "Weapon" >> ],
    MEDIUM_CONCERN |->
      [ weight |-> 20,
        types |-> << "Panhandling", "Homeless Person Assistance", "Abandoned Vehicle",
                     "Illegal Fireworks", "Illegal Dumping", "Public Urination",
                     "Disorderly Conduct" >> ],
    LOW_CONCERN |->
      [ weight |-> 10,
        types |-> << "Noise - Residential", "Noise - Street/Sidewalk", "Noise - Commercial",
                     "Noise - Vehicle", "Noise - Helicopter", "Noise - Park", "Noise",
                     "Illegal Parking", "Blocked Driveway", "Traffic",
                     "For Hire Vehicle Complaint", "Taxi Complaint" >> ],
    INFRASTRUCTURE |->
      [ weight |-> 5,
        types |-> << "Street Condition", "Sidewalk Condition", "Traffic Signal Condition",
                     "Street Light Condition", "Street Sign - Damaged", "Damaged Tree",
                     "Water System", "Sewer", "Standing Water", "Dirty Condition",
                     "Rodent", "Maintenance or Facility",
                     "Residential Disposal Complaint" >> ] ]

Range(s) == { s[i] : i \in 1..Len(s) }

\* for category, info in self.safety_categories.items(): first list containing the input
RECURSIVE FirstCategory(_, _)
FirstCategory(complaint_type, i) ==
  IF i > Len(CategoryOrder) THEN "INFRASTRUCTURE"
  ELSE IF complaint_type \in Range(safety_categories[CategoryOrder[i]].types)
       THEN CategoryOrder[i]
       ELSE FirstCategory(complaint_type, i + 1)

\* variant: unlisted types fall into LOW_CONCERN
categorize_complaint_default_low(complaint_type) ==
  IF complaint_type = NA THEN "INFRASTRUCTURE"
  ELSE IF FirstCategory(complaint_type, 1) = "INFRASTRUCTURE"
          /\ complaint_type \notin Range(safety_categories["INFRASTRUCTURE"].types)
       THEN "LOW_CONCERN"
       ELSE FirstCategory(complaint_type, 1)

categorize_complaint(complaint_type) ==
  IF complaint_type = NA THEN "INFRASTRUCTURE"
  ELSE FirstCategory(complaint_type, 1)

\* variant: infrastructure complaints weigh nothing
category_weight_light(x) ==
  IF x = "INFRASTRUCTURE" THEN 0
  ELSE IF x \in DOMAIN safety_categories THEN safety_categories[x].weight ELSE 5

\* lambda x: self.safety_categories[x]['weight'] if x in self.safety_categories else 0.5
category_weight(x) ==
  IF x \in DOMAIN safety_categories THEN safety_categories[x].weight ELSE 5

\* ---------------------------------------------------------- string helpers
\* str.upper() on the borough strings of the model
str_upper(s) ==
  CASE s = "Brooklyn" -> "BROOKLYN"
    [] s = "Manhattan" -> "MANHATTAN"
    [] s = "Kings" -> "KINGS"
    [] OTHER -> s

\* str.strip() on the strings of the model (the padded ones are listed)
str_strip(s) ==
  CASE s = "Assault " -> "Assault"
    [] s = " 11211" -> "11211"
    [] OTHER -> s

\* astype(str): a missing cell becomes the text 'nan'
astype_str(s) == IF s = NA THEN "nan" ELSE s

normalize_borough_name(borough) ==
  IF borough = None \/ borough = "" THEN ""
  ELSE LET borough_upper == str_strip(str_upper(borough))
       IN CASE borough_upper \in {"MANHATTAN", "NEW YORK", "NY"} -> "MANHATTAN"
            [] borough_upper \in {"BROOKLYN", "KINGS"} -> "BROOKLYN"
            [] borough_upper = "QUEENS" -> "QUEENS"
            [] borough_upper \in {"BRONX", "THE BRONX"} -> "BRONX"
            [] borough_upper \in {"STATEN ISLAND", "RICHMOND", "SI"} -> "STATEN ISLAND"
            [] OTHER -> borough_upper

\* ------------------------------------------------------------- DataFrames
NaN == -1000000
Meridian == -73950

NoneFrame ==
  [ isNone |-> TRUE, rows |-> << >>, fetch_id |-> 0, fetched_for |-> NoAttr, fetched_at |-> 0 ]

\* _create_fallback_data: an empty DataFrame that has the required columns
FallbackFrame ==
  [ isNone |-> FALSE, rows |-> << >>, fetch_id |-> 0, fetched_for |-> NoAttr, fetched_at |-> 0 ]

RawRow(ct, b, z, d, lat) ==
  [ complaint_type |-> ct, borough |-> b, incident_zip |-> z, created_date |-> d,
    latitude |-> lat, longitude |-> Meridian ]

\* _clean_data on one row: strings to text and stripped, then the two derived columns
CleanRow(r) ==
  LET ct == str_strip(astype_str(r.complaint_type))
      cat == categorize_complaint(ct)
  IN [ complaint_type |-> ct,
       borough |-> str_strip(astype_str(r.borough)),
       incident_zip |-> str_strip(astype_str(r.incident_zip)),
       created_date |-> r.created_date,
       latitude |-> r.latitude,
       longitude |-> r.longitude,
       safety_category |-> cat,
       safety_weight |-> category_weight(cat) ]

clean_data(rows) == [ i \in 1..Len(rows) |-> CleanRow(rows[i]) ]

\* ------------------------------------------------------- upstream service
\* Two snapshots of the city's incident table (created_date is a day number).
UpstreamTables ==
  { << RawRow("Assault", "BROOKLYN", "11211", 170, 40710),
       RawRow("Noise", "BROOKLYN", " 11211", 175, 40714),
       RawRow("Street Condition", "MANHATTAN", "10021", 100, 40770),
       RawRow(NA, "BROOKLYN", "11201", 120, NaN),
       RawRow("Assault ", "MANHATTAN", "10021", 179, 40772) >>,
    << RawRow("Rodent", "BROOKLYN", "11211", 150, 40712),
       RawRow("Panhandling", "MANHATTAN", "10021", 178, NaN) >> }

\* The answer to the $query of _fetch_from_api: the rows of the table whose
\* UPPER(borough) equals the normalized scope (all rows when no scope is given).
QueryRows(table, borough) ==
  IF borough = None \/ borough = "" THEN table
  ELSE SelectSeq(table, LAMBDA r : str_upper(r.borough) = normalize_borough_name(borough))

\* What one HTTP request to the incident source can produce.
\*   error:     the request raises or the status is not OK  (RequestException)
\*   malformed: a body that is not a list of flat records (DataFrame / _clean_data raise)
\*   rows:      a JSON list of records, possibly empty
Responses(borough) ==
  { [ kind |-> "error", rows |-> << >> ], [ kind |-> "malformed", rows |-> << >> ],
    [ kind |-> "rows", rows |-> << >> ] }
  \cup { [ kind |-> "rows", rows |-> QueryRows(t, borough) ] : t \in UpstreamTables }

\* no request is made
NoResponse == [ kind |-> "none", rows |-> << >> ]

\* _fetch_from_api: None (modelled by ok = FALSE) on any exception, else the decoded body
fetch_from_api(resp) ==
  IF resp.kind = "error" THEN [ ok |-> FALSE, malformed |-> FALSE, rows |-> << >> ]
  ELSE [ ok |-> TRUE, malformed |-> (resp.kind = "malformed"), rows |-> resp.rows ]

Scopes == { None, "BROOKLYN", "Brooklyn" }

\* ---------------------------------------------------------------- scoring
\* round(num / den, k) on the scaled integers: nearest, ties to even.  (For the
\* subset sizes of the model every decimal tie is a multiple of 1/8, which a
\* double holds exactly, so Python's round breaks it to even.)
RoundHalfEven(num, den) ==
  LET q == num \div den
      r2 == 2 * (num % den)
  IN IF r2 > den THEN q + 1
     ELSE IF r2 < den THEN q
     ELSE IF q % 2 = 0 THEN q ELSE q + 1

Max(a, b) == IF a >= b THEN a ELSE b
Min(a, b) == IF a <= b THEN a ELSE b

RECURSIVE SumWeights(_)
SumWeights(rows) ==
  IF rows = << >> THEN 0 ELSE Head(rows).safety_weight + SumWeights(Tail(rows))

CountCategory(rows, cat) == Len(SelectSeq(rows, LAMBDA r : r.safety_category = cat))

MaxDate(rows) == CHOOSE d \in { rows[i].created_date : i \in 1..Len(rows) } :
                   \A j \in 1..Len(rows) : rows[j].created_date <= d
MinDate(rows) == CHOOSE d \in { rows[i].created_date : i \in 1..Len(rows) } :
                   \A j \in 1..Len(rows) : rows[j].created_date >= d

\* variant: value_counts() without normalize
ValueCountsRaw(rows) ==
  [ c \in { rows[i].safety_category : i \in 1..Len(rows) } |->
      [ num |-> CountCategory(rows, c), den |-> 1 ] ]

\* value_counts(normalize=True).to_dict(): the categories present, each with
\* count / total kept as the exact fraction [num, den]
ValueCountsNormalized(rows) ==
  [ c \in { rows[i].safety_category : i \in 1..Len(rows) } |->
      [ num |-> CountCategory(rows, c), den |-> Len(rows) ] ]

\* variant: the empty subset gets the neutral 3.0 instead of 5.0
calculate_safety_metrics_neutral_empty(rows) ==
  LET total_complaints == Len(rows)
  IN IF total_complaints = 0
     THEN [ total_complaints |-> 0, weighted_safety_score |-> 300, complaints_per_day |-> 0,
            high_concern_ratio |-> 0, category_distribution |-> << >> ]
     ELSE LET score_num == 500 * total_complaints - 15 * SumWeights(rows)
              safety_score == IF score_num <= 100 * total_complaints THEN 100
                              ELSE RoundHalfEven(score_num, total_complaints)
              days == MaxDate(rows) - MinDate(rows)
              date_range == IF days = 0 THEN 1 ELSE days
              complaints_per_day == RoundHalfEven(1000 * total_complaints, Max(date_range, 1))
              high_concern_count == CountCategory(rows, "HIGH_CONCERN")
              high_concern_ratio == RoundHalfEven(1000 * high_concern_count, total_complaints)
          IN [ total_complaints |-> total_complaints,
               weighted_safety_score |-> safety_score,
               complaints_per_day |-> complaints_per_day,
               high_concern_ratio |-> high_concern_ratio,
               category_distribution |-> ValueCountsNormalized(rows) ]

calculate_safety_metrics(rows) ==
  LET total_complaints == Len(rows)
  IN IF total_complaints = 0
     THEN [ total_complaints |-> 0, weighted_safety_score |-> 500, complaints_per_day |-> 0,
            high_concern_ratio |-> 0, category_distribution |-> << >> ]
     ELSE LET \* 100 * (5.0 - weighted_score * 1.5) as a fraction over total_complaints
              score_num == 500 * total_complaints - 15 * SumWeights(rows)
              safety_score == IF score_num <= 100 * total_complaints THEN 100
                              ELSE RoundHalfEven(score_num, total_complaints)
              days == MaxDate(rows) - MinDate(rows)
              date_range == IF days = 0 THEN 1 ELSE days
              complaints_per_day == RoundHalfEven(1000 * total_complaints, Max(date_range, 1))
              high_concern_count == CountCategory(rows, "HIGH_CONCERN")
              high_concern_ratio == RoundHalfEven(1000 * high_concern_count, total_complaints)
          IN [ total_complaints |-> total_complaints,
               weighted_safety_score |-> safety_score,
               complaints_per_day |-> complaints_per_day,
               high_concern_ratio |-> high_concern_ratio,
               category_distribution |-> ValueCountsNormalized(rows) ]

\* the if / elif chain of _generate_safety_rating
GradeOf(score) ==
  IF score >= 450 THEN "A"
  ELSE IF score >= 350 THEN "B"
  ELSE IF score >= 250 THEN "C"
  ELSE IF score >= 150 THEN "D"
  ELSE "F"

DescriptionOf(grade) ==
  CASE grade = "A" -> "Very Safe"
    [] grade = "B" -> "Generally Safe"
    [] grade = "C" -> "Moderately Safe"
    [] grade = "D" -> "Some Safety Concerns"
    [] OTHER -> "Significant Safety Concerns"

ColorOf(grade) ==
  CASE grade = "A" -> "green"
    [] grade = "B" -> "lightgreen"
    [] grade = "C" -> "yellow"
    [] grade = "D" -> "orange"
    [] OTHER -> "red"

\* variant: the final max / min is missing
generate_safety_rating_unclamped(metrics) ==
  LET score0 == metrics.weighted_safety_score
      score1 == IF metrics.high_concern_ratio > 200 THEN score0 - 100
                ELSE IF metrics.high_concern_ratio > 100 THEN score0 - 50
                ELSE score0
      score2 == IF metrics.complaints_per_day > 2000 THEN score1 - 50
                ELSE IF metrics.complaints_per_day > 1000 THEN score1 - 25
                ELSE score1
      grade == GradeOf(score2)
  IN [ score |-> score2, grade |-> grade,
       description |-> DescriptionOf(grade), color |-> ColorOf(grade) ]

\* variant: the frequency thresholds are inclusive
generate_safety_rating_inclusive(metrics) ==
  LET score0 == metrics.weighted_safety_score
      score1 == IF metrics.high_concern_ratio > 200 THEN score0 - 100
                ELSE IF metrics.high_concern_ratio > 100 THEN score0 - 50
                ELSE score0
      score2 == IF metrics.complaints_per_day >= 2000 THEN score1 - 50
                ELSE IF metrics.complaints_per_day >= 1000 THEN score1 - 25
                ELSE score1
      score == Max(100, Min(500, score2))
      grade == GradeOf(score)
  IN [ score |-> score, grade |-> grade,
       description |-> DescriptionOf(grade), color |-> ColorOf(grade) ]

generate_safety_rating(metrics) ==
  LET score0 == metrics.weighted_safety_score
      score1 == IF metrics.high_concern_ratio > 200 THEN score0 - 100
                ELSE IF metrics.high_concern_ratio > 100 THEN score0 - 50
                ELSE score0
      score2 == IF metrics.complaints_per_day > 2000 THEN score1 - 50
                ELSE IF metrics.complaints_per_day > 1000 THEN score1 - 25
                ELSE score1
      score == Max(100, Min(500, score2))
      grade == GradeOf(score)
  IN [ score |-> score, grade |-> grade,
       description |-> DescriptionOf(grade), color |-> ColorOf(grade) ]

\* ------------------------------------------------------------- area filter
EarthMilliDegree == 69094

haversine_distance(lat1, lon1, lat2, lon2) ==
  IF lat1 = NaN \/ lon1 = NaN \/ lat2 = NaN \/ lon2 = NaN THEN NaN
  ELSE EarthMilliDegree * (IF lat2 >= lat1 THEN lat2 - lat1 ELSE lat1 - lat2)

\* What one request to the geocoder can produce.
\*   point: status OK with a location
\*   none:  a request error or a status other than OK (the method returns None)
\*   raise: status OK with an empty result list (the lookup raises IndexError)
GeocodeResults ==
  { [ kind |-> "point", lat |-> 40711, lon |-> Meridian ],
    [ kind |-> "none", lat |-> NaN, lon |-> NaN ],
    [ kind |-> "raise", lat |-> NaN, lon |-> NaN ] }

geocode_address(api_key, geo) ==
  IF ~api_key THEN [ kind |-> "none", lat |-> NaN, lon |-> NaN ] ELSE geo

Truthy(s) == s # None /\ s # ""

\* variant: the postal-code and borough criteria are applied before the radius
filter_area_data_narrowed(df, zip_code, borough, address, radius_miles, api_key, geo) ==
  IF df.isNone THEN [ raised |-> TRUE, rows |-> << >> ]
  ELSE
  LET coords == geocode_address(api_key, geo)
      by_zip == IF Truthy(zip_code)
                THEN SelectSeq(df.rows, LAMBDA r : r.incident_zip = zip_code)
                ELSE df.rows
      by_borough == IF Truthy(borough)
                    THEN SelectSeq(by_zip, LAMBDA r : str_upper(r.borough) = str_upper(borough))
                    ELSE by_zip
  IN IF Truthy(address) /\ api_key /\ coords.kind = "raise"
     THEN [ raised |-> TRUE, rows |-> << >> ]
     ELSE IF Truthy(address) /\ api_key /\ coords.kind = "point"
     THEN [ raised |-> FALSE,
            rows |-> SelectSeq(by_borough,
                       LAMBDA r : LET d == haversine_distance(coords.lat, coords.lon,
                                                              r.latitude, r.longitude)
                                  IN d # NaN /\ d <= radius_miles) ]
     ELSE [ raised |-> FALSE, rows |-> by_borough ]

\* variant: the borough criterion compares the strings as they are
filter_area_data_exact_case(df, zip_code, borough, address, radius_miles, api_key, geo) ==
  IF df.isNone THEN [ raised |-> TRUE, rows |-> << >> ]
  ELSE
  LET coords == geocode_address(api_key, geo)
      by_zip == IF Truthy(zip_code)
                THEN SelectSeq(df.rows, LAMBDA r : r.incident_zip = zip_code)
                ELSE df.rows
      by_borough == IF Truthy(borough)
                    THEN SelectSeq(by_zip, LAMBDA r : r.borough = borough)
                    ELSE by_zip
  IN IF Truthy(address) /\ api_key /\ coords.kind = "raise"
     THEN [ raised |-> TRUE, rows |-> << >> ]
     ELSE IF Truthy(address) /\ api_key /\ coords.kind = "point"
     THEN [ raised |-> FALSE,
            rows |-> SelectSeq(df.rows,
                       LAMBDA r : LET d == haversine_distance(coords.lat, coords.lon,
                                                              r.latitude, r.longitude)
                                  IN d # NaN /\ d <= radius_miles) ]
     ELSE [ raised |-> FALSE, rows |-> by_borough ]

\* _filter_area_data; raised = TRUE when the method does not return
filter_area_data(df, zip_code, borough, address, radius_miles, api_key, geo) ==
  IF df.isNone THEN [ raised |-> TRUE, rows |-> << >> ]
  ELSE
  LET coords == geocode_address(api_key, geo)
      by_zip == IF Truthy(zip_code)
                THEN SelectSeq(df.rows, LAMBDA r : r.incident_zip = zip_code)
                ELSE df.rows
      by_borough == IF Truthy(borough)
                    THEN SelectSeq(by_zip, LAMBDA r : str_upper(r.borough) = str_upper(borough))
                    ELSE by_zip
  IN IF Truthy(address) /\ api_key /\ coords.kind = "raise"
     THEN [ raised |-> TRUE, rows |-> << >> ]
     ELSE IF Truthy(address) /\ api_key /\ coords.kind = "point"
     THEN [ raised |-> FALSE,
            rows |-> SelectSeq(df.rows,
                       LAMBDA r : LET d == haversine_distance(coords.lat, coords.lon,
                                                              r.latitude, r.longitude)
                                  IN d # NaN /\ d <= radius_miles) ]
     ELSE [ raised |-> FALSE, rows |-> by_borough ]

\* ------------------------------------------------------- recent activity
\* the day number of datetime.now()
Today == 180
days == 30

\* variant: a rise of exactly a fifth already counts as increasing
get_recent_activity_inclusive(area_data, today) ==
  IF area_data = << >> THEN [ recent_complaints |-> 0, trend |-> "stable" ]
  ELSE
  LET cutoff_date == today - days
      prev_cutoff == cutoff_date - days
      recent_count == Len(SelectSeq(area_data,
                        LAMBDA r : r.created_date # NaN /\ r.created_date >= cutoff_date))
      prev_count == Len(SelectSeq(area_data,
                      LAMBDA r : /\ r.created_date # NaN
                                 /\ r.created_date >= prev_cutoff
                                 /\ r.created_date < cutoff_date))
      trend == IF prev_count = 0 THEN "stable"
               ELSE IF 10 * recent_count >= 12 * prev_count THEN "increasing"
               ELSE IF 10 * recent_count < 8 * prev_count THEN "decreasing"
               ELSE "stable"
  IN [ recent_complaints |-> recent_count, previous_period_complaints |-> prev_count,
       trend |-> trend, days_analyzed |-> days ]

\* _get_recent_activity(area_data) called on day today; a created_date of NaN
\* is NaT, which compares False.  The products prev_count * 1.2 and
\* prev_count * 0.8 are compared in tenths.
get_recent_activity(area_data, today) ==
  IF area_data = << >> THEN [ recent_complaints |-> 0, trend |-> "stable" ]
  ELSE
  LET cutoff_date == today - days
      prev_cutoff == cutoff_date - days
      recent_count == Len(SelectSeq(area_data,
                        LAMBDA r : r.created_date # NaN /\ r.created_date >= cutoff_date))
      prev_count == Len(SelectSeq(area_data,
                      LAMBDA r : /\ r.created_date # NaN
                                 /\ r.created_date >= prev_cutoff
                                 /\ r.created_date < cutoff_date))
      trend == IF prev_count = 0 THEN "stable"
               ELSE IF 10 * recent_count > 12 * prev_count THEN "increasing"
               ELSE IF 10 * recent_count < 8 * prev_count THEN "decreasing"
               ELSE "stable"
  IN [ recent_complaints |-> recent_count, previous_period_complaints |-> prev_count,
       trend |-> trend, days_analyzed |-> days ]

create_default_rating(message) ==
  [ area_info |-> [ data_points |-> 0 ],
    safety_rating |-> [ score |-> 300, grade |-> "C", description |-> "Insufficient Data",
                        color |-> "gray" ],
    safety_metrics |-> [ total_complaints |-> 0, weighted_safety_score |-> 300,
                         complaints_per_day |-> 0, high_concern_ratio |-> 0,
                         category_distribution |-> << >> ],
    safety_summary |-> message,
    recent_activity |-> [ recent_complaints |-> 0, trend |-> "stable" ] ]

borough_ratings ==
  [ Manhattan |-> [ score |-> 380, grade |-> "B+",
                    description |-> "Generally safe with heavy foot traffic and police presence" ],
    Brooklyn |-> [ score |-> 350, grade |-> "B",
                   description |-> "Safety varies by neighborhood, generally improving" ],
    Queens |-> [ score |-> 360, grade |-> "B",
                 description |-> "Diverse borough with generally good safety record" ],
    Bronx |-> [ score |-> 320, grade |-> "B-",
                description |-> "Improving safety conditions, varies by area" ] ]
  @@ ( "Staten Island" :> [ score |-> 400, grade |-> "A-",
                            description |-> "Generally the safest NYC borough" ] )

create_fallback_rating(zip_code, borough, address) ==
  LET rating_info == IF Truthy(borough) /\ borough \in DOMAIN borough_ratings
                     THEN borough_ratings[borough]
                     ELSE [ score |-> 350, grade |-> "B",
                            description |-> "General NYC area safety rating" ]
  IN [ safety_rating |-> [ score |-> rating_info.score, grade |-> rating_info.grade,
                           description |-> rating_info.description ],
       safety_metrics |-> [ total_complaints |-> 0, high_concern_count |-> 0,
                            medium_concern_count |-> 0, low_concern_count |-> 0,
                            avg_complaints_per_month |-> 0 ],
       recent_activity |-> [ trend |-> "stable", recent_incidents |-> 0,
                             comparison_text |-> "No recent data available" ],
       area_info |-> [ zip_code |-> zip_code, borough |-> borough, address |-> address,
                       radius_miles |-> 500000, data_points |-> 0 ],
       safety_summary |-> "Basic safety information",
       data_source |-> "Fallback rating (API unavailable)" ]

\* variant: an empty subset is scored like any other
area_safety_rating_unchecked(df, zip_code, borough, address, radius_miles, api_key, geo) ==
  LET area == filter_area_data(df, zip_code, borough, address, radius_miles, api_key, geo)
      safety_metrics == calculate_safety_metrics(area.rows)
  IN IF area.raised THEN create_default_rating("Error calculating safety rating")
     ELSE [ area_info |-> [ zip_code |-> zip_code, borough |-> borough,
                            address |-> address, radius_miles |-> radius_miles,
                            data_points |-> Len(area.rows) ],
            safety_rating |-> generate_safety_rating(safety_metrics),
            safety_metrics |-> safety_metrics,
            safety_summary |-> "This area is rated as",
            recent_activity |-> get_recent_activity(area.rows, Today) ]

\* variant: a failure of the filter is reported as an area without records
area_safety_rating_quiet(df, zip_code, borough, address, radius_miles, api_key, geo) ==
  LET area == filter_area_data(df, zip_code, borough, address, radius_miles, api_key, geo)
      safety_metrics == calculate_safety_metrics(area.rows)
  IN IF area.raised THEN create_default_rating("No crime data available for this area")
     ELSE IF area.rows = << >>
     THEN IF df.rows = << >>
          THEN create_fallback_rating(zip_code, borough, address)
          ELSE create_default_rating("No crime data available for this area")
     ELSE [ area_info |-> [ zip_code |-> zip_code, borough |-> borough,
                            address |-> address, radius_miles |-> radius_miles,
                            data_points |-> Len(area.rows) ],
            safety_rating |-> generate_safety_rating(safety_metrics),
            safety_metrics |-> safety_metrics,
            safety_summary |-> "This area is rated as",
            recent_activity |-> get_recent_activity(area.rows, Today) ]

\* get_area_safety_rating from the filtering on (lines 352-389), df being the
\* dataset after the load step; the texts are cut to their first words
area_safety_rating(df, zip_code, borough, address, radius_miles, api_key, geo) ==
  LET area == filter_area_data(df, zip_code, borough, address, radius_miles, api_key, geo)
      safety_metrics == calculate_safety_metrics(area.rows)
  IN IF area.raised THEN create_default_rating("Error calculating safety rating")
     ELSE IF area.rows = << >>
     THEN IF df.rows = << >>
          THEN create_fallback_rating(zip_code, borough, address)
          ELSE create_default_rating("No crime data available for this area")
     ELSE [ area_info |-> [ zip_code |-> zip_code, borough |-> borough,
                            address |-> address, radius_miles |-> radius_miles,
                            data_points |-> Len(area.rows) ],
            safety_rating |-> generate_safety_rating(safety_metrics),
            safety_metrics |-> safety_metrics,
            safety_summary |-> "This area is rated as",
            recent_activity |-> get_recent_activity(area.rows, Today) ]

\* ------------------------------------------------------------------ state
VARIABLES crime_data, data_cache, cache_timestamp, cached_borough, google_api_key,
          now, fetches, ret

vars == << crime_data, data_cache, cache_timestamp, cached_borough, google_api_key,
          now, fetches, ret >>

cache_duration == 3600
NoTimestamp == -1

\* the four attributes load_data reads and writes
Store == [ crime_data |-> crime_data, data_cache |-> data_cache,
           cache_timestamp |-> cache_timestamp, cached_borough |-> cached_borough ]

\* variant: an entry exactly cache_duration old still counts as fresh
is_cache_valid_late(st, borough, t) ==
  IF st.data_cache.isNone \/ st.cache_timestamp = NoTimestamp THEN FALSE
  ELSE IF (t - st.cache_timestamp) > cache_duration THEN FALSE
  ELSE LET cb == IF st.cached_borough = NoAttr THEN None ELSE st.cached_borough
       IN IF borough # cb THEN FALSE ELSE TRUE

is_cache_valid(st, borough, t) ==
  IF st.data_cache.isNone \/ st.cache_timestamp = NoTimestamp THEN FALSE
  ELSE IF (t - st.cache_timestamp) >= cache_duration THEN FALSE
  ELSE LET cb == IF st.cached_borough = NoAttr THEN None ELSE st.cached_borough
       IN IF borough # cb THEN FALSE ELSE TRUE

\* variant: a cache hit returns without copying the cache into crime_data
load_data_no_copy(st, borough, resp, t, id) ==
  IF is_cache_valid(st, borough, t)
  THEN [ st |-> st, result |-> TRUE, fetched |-> FALSE ]
  ELSE LET raw == fetch_from_api(resp)
       IN IF ~raw.ok \/ (~raw.malformed /\ raw.rows = << >>)
          THEN [ st |-> st, result |-> FALSE, fetched |-> TRUE ]
          ELSE IF raw.malformed
          THEN [ st |-> [ st EXCEPT !.crime_data = FallbackFrame ],
                 result |-> TRUE, fetched |-> TRUE ]
          ELSE LET df == [ isNone |-> FALSE, rows |-> clean_data(raw.rows),
                           fetch_id |-> id, fetched_for |-> borough, fetched_at |-> t ]
               IN [ st |-> [ crime_data |-> df, data_cache |-> df,
                             cache_timestamp |-> t, cached_borough |-> borough ],
                    result |-> TRUE, fetched |-> TRUE ]

\* variant: an answer without records is stored like any other
load_data_cache_empty(st, borough, resp, t, id) ==
  IF is_cache_valid(st, borough, t)
  THEN [ st |-> [ st EXCEPT !.crime_data = st.data_cache ], result |-> TRUE, fetched |-> FALSE ]
  ELSE LET raw == fetch_from_api(resp)
       IN IF ~raw.ok
          THEN [ st |-> st, result |-> FALSE, fetched |-> TRUE ]
          ELSE IF raw.malformed
          THEN [ st |-> [ st EXCEPT !.crime_data = FallbackFrame ],
                 result |-> TRUE, fetched |-> TRUE ]
          ELSE LET df == [ isNone |-> FALSE, rows |-> clean_data(raw.rows),
                           fetch_id |-> id, fetched_for |-> borough, fetched_at |-> t ]
               IN [ st |-> [ crime_data |-> df, data_cache |-> df,
                             cache_timestamp |-> t, cached_borough |-> borough ],
                    result |-> TRUE, fetched |-> TRUE ]

\* load_data(borough) run on store st at time t when the upstream answers resp
\* (resp is looked at only if a request is made).  id is the number of this request.
load_data(st, borough, resp, t, id) ==
  IF is_cache_valid(st, borough, t)
  THEN [ st |-> [ st EXCEPT !.crime_data = st.data_cache ], result |-> TRUE, fetched |-> FALSE ]
  ELSE LET raw == fetch_from_api(resp)
       IN IF ~raw.ok \/ (~raw.malformed /\ raw.rows = << >>)
          THEN [ st |-> st, result |-> FALSE, fetched |-> TRUE ]
          ELSE IF raw.malformed
          THEN [ st |-> [ st EXCEPT !.crime_data = FallbackFrame ],
                 result |-> TRUE, fetched |-> TRUE ]
          ELSE LET df == [ isNone |-> FALSE, rows |-> clean_data(raw.rows),
                           fetch_id |-> id, fetched_for |-> borough, fetched_at |-> t ]
               IN [ st |-> [ crime_data |-> df, data_cache |-> df,
                             cache_timestamp |-> t, cached_borough |-> borough ],
                    result |-> TRUE, fetched |-> TRUE ]

SetStore(st) ==
  /\ crime_data' = st.crime_data
  /\ data_cache' = st.data_cache
  /\ cache_timestamp' = st.cache_timestamp
  /\ cached_borough' = st.cached_borough

Init ==
  /\ crime_data = NoneFrame
  /\ data_cache = NoneFrame
  /\ cache_timestamp = NoTimestamp
  /\ cached_borough = NoAttr
  /\ google_api_key \in BOOLEAN
  /\ now = 0
  /\ fetches = 0
  /\ ret = [ op |-> "init" ]

\* the clock readings of the model: just before and at one cache lifetime, and the end
Instants == { 0, cache_duration - 1, cache_duration, MaxTime }

\* time.time() advances between calls
Tick ==
  \E t \in Instants :
    /\ t > now
    /\ now' = t
    /\ ret' = [ op |-> "tick" ]
    /\ UNCHANGED << crime_data, data_cache, cache_timestamp, cached_borough, fetches,
                    google_api_key >>

LoadData ==
  \E borough \in Scopes :
  \E resp \in (IF is_cache_valid(Store, borough, now) THEN { NoResponse }
               ELSE Responses(borough)) :
    LET r == load_data(Store, borough, resp, now, fetches + 1)
    IN /\ r.fetched => fetches < MaxFetches
       /\ SetStore(r.st)
       /\ fetches' = IF r.fetched THEN fetches + 1 ELSE fetches
       /\ ret' = [ op |-> "load_data", borough |-> borough, result |-> r.result,
                   fetched |-> r.fetched, resp |-> resp.kind, records |-> Len(resp.rows) ]
       /\ UNCHANGED << now, google_api_key >>

\* variant: the cache attributes are not dropped
refresh_data_keep(st, borough, resp, t, id) == load_data(st, borough, resp, t, id)

\* variant: only the payload is dropped
refresh_data_payload_only(st, borough, resp, t, id) ==
  LET cleared == [ st EXCEPT !.data_cache = NoneFrame ]
  IN load_data(cleared, borough, resp, t, id)

\* refresh_data: drop the cache attributes, then load_data
refresh_data(st, borough, resp, t, id) ==
  LET cleared == [ st EXCEPT !.data_cache = NoneFrame,
                             !.cache_timestamp = NoTimestamp,
                             !.cached_borough = NoAttr ]
  IN load_data(cleared, borough, resp, t, id)

RefreshData ==
  \E borough \in Scopes : \E resp \in Responses(borough) :
    LET r == refresh_data(Store, borough, resp, now, fetches + 1)
    IN /\ r.fetched => fetches < MaxFetches
       /\ SetStore(r.st)
       /\ fetches' = IF r.fetched THEN fetches + 1 ELSE fetches
       /\ ret' = [ op |-> "refresh_data", borough |-> borough, result |-> r.result,
                   fetched |-> r.fetched, resp |-> resp.kind,
                   cache_was_valid |-> is_cache_valid(Store, borough, now) ]
       /\ UNCHANGED << now, google_api_key >>

\* the test that makes get_area_safety_rating call load_data first
must_load(st, borough) ==
  \/ st.crime_data.isNone
  \/ /\ Truthy(borough)
     /\ st.cached_borough # NoAttr
     /\ st.cached_borough # borough

\* the arguments of get_area_safety_rating in the model
ZipCodes == { None, "11201" }
AreaScopes == { None, "Brooklyn" }
Addresses == { None, "200 Bedford Ave" }
Radii == { 500000 }

\* get_area_safety_rating(zip_code, borough, address, radius_miles)
GetAreaSafetyRating ==
  \E zip_code \in ZipCodes, borough \in AreaScopes, address \in Addresses,
     radius_miles \in Radii :
  \E resp \in (IF must_load(Store, borough) /\ ~is_cache_valid(Store, borough, now)
               THEN Responses(borough) ELSE { NoResponse }) :
  \E geo \in (IF Truthy(address) /\ google_api_key THEN GeocodeResults
              ELSE { [ kind |-> "none", lat |-> NaN, lon |-> NaN ] }) :
    LET r == IF must_load(Store, borough) THEN load_data(Store, borough, resp, now, fetches + 1)
             ELSE [ st |-> Store, result |-> TRUE, fetched |-> FALSE ]
        response == area_safety_rating(r.st.crime_data, zip_code, borough, address,
                                       radius_miles, google_api_key, geo)
    IN /\ r.fetched => fetches < MaxFetches
       /\ SetStore(r.st)
       /\ fetches' = IF r.fetched THEN fetches + 1 ELSE fetches
       /\ ret' = [ op |-> "get_area_safety_rating", zip_code |-> zip_code,
                   borough |-> borough, address |-> address, radius_miles |-> radius_miles,
                   geocoder |-> geo.kind,
                   loaded |-> must_load(Store, borough), fetched |-> r.fetched,
                   response |-> response ]
       /\ UNCHANGED << now, google_api_key >>

Next == Tick \/ LoadData \/ RefreshData \/ GetAreaSafetyRating

Spec == Init /\ [][Next]_vars

\* ------------------------------------------------- the scorer on its own
\* a subset with h, m, l, i rows of the four categories, the first row created
\* on day 0 and the others span days later
Repeat(x, n) == [ k \in 1..n |-> x ]

SubsetOf(h, m, l, i, span) ==
  LET types == Repeat("Assault", h) \o Repeat("Panhandling", m)
               \o Repeat("Noise", l) \o Repeat("Rodent", i)
  IN clean_data([ k \in 1..Len(types) |->
                    RawRow(types[k], "BROOKLYN", "11211", IF k = 1 THEN 0 ELSE span, NaN) ])

StoreInit ==
  /\ crime_data = NoneFrame
  /\ data_cache = NoneFrame
  /\ cache_timestamp = NoTimestamp
  /\ cached_borough = NoAttr
  /\ google_api_key = FALSE
  /\ now = 0
  /\ fetches = 0

StoreUnchanged ==
  UNCHANGED << crime_data, data_cache, cache_timestamp, cached_borough, google_api_key,
               now, fetches >>

ScoreInit ==
  /\ StoreInit
  /\ \E h \in 0..MaxN, m \in 0..MaxN, l \in 0..MaxN, i \in 0..MaxN, span \in 0..MaxSpan :
       /\ h + m + l + i <= MaxN
       /\ (h + m + l + i <= 1) => span = 0
       /\ ret = [ op |-> "subset", area_data |-> SubsetOf(h, m, l, i, span) ]

\* _calculate_safety_metrics followed by _generate_safety_rating
Score ==
  /\ ret.op = "subset"
  /\ LET safety_metrics == calculate_safety_metrics(ret.area_data)
     IN ret' = [ op |-> "score", area_data |-> ret.area_data,
                 safety_metrics |-> safety_metrics,
                 safety_rating |-> generate_safety_rating(safety_metrics) ]
  /\ StoreUnchanged

SpecScore == ScoreInit /\ [][Score]_vars

\* --------------------------------------------- the classifier on its own
AllTypes == UNION { Range(safety_categories[c].types) : c \in DOMAIN safety_categories }

ClassifyInputs ==
  AllTypes \cup { NA, "", "nan", "None", "assault", "ASSAULT", "Assault ", "noise",
                  "Noise - residential", "Unknown", "HIGH_CONCERN", "Homeless Encampment" }

ClassifyInit ==
  /\ StoreInit
  /\ \E ct \in ClassifyInputs : ret = [ op |-> "input", complaint_type |-> ct ]

\* _categorize_complaint applied to a value
Categorize ==
  /\ ret.op = "input"
  /\ ret' = [ op |-> "categorize", complaint_type |-> ret.complaint_type,
              category |-> categorize_complaint(ret.complaint_type) ]
  /\ StoreUnchanged

\* _clean_data applied to a row with that complaint type
CleanOne ==
  /\ ret.op = "input"
  /\ ret' = [ op |-> "clean", complaint_type |-> ret.complaint_type,
              row |-> CleanRow(RawRow(ret.complaint_type, "BROOKLYN", "11211", 0, NaN)) ]
  /\ StoreUnchanged

ClassifyNext == Categorize \/ CleanOne

SpecClassify == ClassifyInit /\ [][ClassifyNext]_vars

\* ---------------------------------------------------------- route analyzer
\* variant: of two elements with equal keys the later one comes first
sorted_unstable(keys) ==
  LET pos(i) == Cardinality({ j \in 1..Len(keys) :
                                keys[j] < keys[i] \/ (keys[j] = keys[i] /\ j > i) }) + 1
  IN [ p \in 1..Len(keys) |-> CHOOSE i \in 1..Len(keys) : pos(i) = p ]

\* sorted(xs, key=...) as the order of the indices of xs: a stable ascending
\* sort by keys; sorted(..., reverse=True) is the stable sort by the negated keys
sorted(keys) ==
  LET pos(i) == Cardinality({ j \in 1..Len(keys) :
                                keys[j] < keys[i] \/ (keys[j] = keys[i] /\ j < i) }) + 1
  IN [ p \in 1..Len(keys) |-> CHOOSE i \in 1..Len(keys) : pos(i) = p ]

\* next((r for r in routes if test(r)), None) as an index, 0 for None; tests[i]
\* is the outcome of the test on routes[i]
FirstIndex(tests) ==
  IF \E i \in 1..Len(tests) : tests[i]
  THEN CHOOSE i \in 1..Len(tests) : tests[i] /\ \A j \in 1..(i - 1) : ~tests[j]
  ELSE 0

\* variant: the fastest route is emitted even when it is the safest one
categorize_and_sort_routes_no_dedup(routes) ==
  IF routes = << >> THEN << >>
  ELSE
  LET routes_by_safety == sorted([ i \in 1..Len(routes) |-> -routes[i].overall_safety_score ])
      routes_by_speed == sorted([ i \in 1..Len(routes) |-> routes[i].total_duration.value ])
      safest == routes[routes_by_safety[1]]
      fastest == routes[routes_by_speed[1]]
      b == IF Len(routes) >= 3
           THEN FirstIndex([ i \in 1..Len(routes) |->
                               /\ routes[i].route_id # safest.route_id
                               /\ routes[i].route_id # fastest.route_id ])
           ELSE 0
  IN << [ safest EXCEPT !.route_type = "safest" ] >>
     \o << [ fastest EXCEPT !.route_type = "fastest" ] >>
     \o (IF b # 0 THEN << [ routes[b] EXCEPT !.route_type = "balanced" ] >> ELSE << >>)

\* _categorize_and_sort_routes(routes)
categorize_and_sort_routes(routes) ==
  IF routes = << >> THEN << >>
  ELSE
  LET routes_by_safety == sorted([ i \in 1..Len(routes) |-> -routes[i].overall_safety_score ])
      routes_by_speed == sorted([ i \in 1..Len(routes) |-> routes[i].total_duration.value ])
      safest == routes[routes_by_safety[1]]
      fastest == routes[routes_by_speed[1]]
      b == IF Len(routes) >= 3
           THEN FirstIndex([ i \in 1..Len(routes) |->
                               /\ routes[i].route_id # safest.route_id
                               /\ routes[i].route_id # fastest.route_id ])
           ELSE 0
  IN << [ safest EXCEPT !.route_type = "safest" ] >>
     \o (IF fastest.route_id # safest.route_id
         THEN << [ fastest EXCEPT !.route_type = "fastest" ] >> ELSE << >>)
     \o (IF b # 0 THEN << [ routes[b] EXCEPT !.route_type = "balanced" ] >> ELSE << >>)

\* variant: the balanced route is preferred to a safest route of any score
generate_recommendation_balanced_first(routes) ==
  IF routes = << >>
  THEN [ recommended_route_id |-> "", reason |-> "No routes available" ]
  ELSE
  LET safest_route == FirstIndex([ i \in 1..Len(routes) |-> routes[i].route_type = "safest" ])
      fastest_route == FirstIndex([ i \in 1..Len(routes) |-> routes[i].route_type = "fastest" ])
      balanced_route == FirstIndex([ i \in 1..Len(routes) |-> routes[i].route_type = "balanced" ])
  IN IF balanced_route # 0
     THEN [ recommended_route_id |-> routes[balanced_route].route_id,
            reason |-> "Recommended for the best balance of safety and travel time." ]
     ELSE IF safest_route # 0 /\ routes[safest_route].overall_safety_score >= 400
     THEN [ recommended_route_id |-> routes[safest_route].route_id,
            reason |-> "Recommended for excellent safety" ]
     ELSE IF fastest_route # 0
     THEN [ recommended_route_id |-> routes[fastest_route].route_id,
            reason |-> "Fastest available option. Consider safety precautions during travel." ]
     ELSE [ recommended_route_id |-> routes[1].route_id, reason |-> "Default route option." ]

\* _generate_recommendation(routes); the first reason is cut before the grade
generate_recommendation(routes) ==
  IF routes = << >>
  THEN [ recommended_route_id |-> "", reason |-> "No routes available" ]
  ELSE
  LET safest_route == FirstIndex([ i \in 1..Len(routes) |-> routes[i].route_type = "safest" ])
      fastest_route == FirstIndex([ i \in 1..Len(routes) |-> routes[i].route_type = "fastest" ])
      balanced_route == FirstIndex([ i \in 1..Len(routes) |-> routes[i].route_type = "balanced" ])
  IN IF safest_route # 0 /\ routes[safest_route].overall_safety_score >= 400
     THEN [ recommended_route_id |-> routes[safest_route].route_id,
            reason |-> "Recommended for excellent safety" ]
     ELSE IF balanced_route # 0
     THEN [ recommended_route_id |-> routes[balanced_route].route_id,
            reason |-> "Recommended for the best balance of safety and travel time." ]
     ELSE IF fastest_route # 0
     THEN [ recommended_route_id |-> routes[fastest_route].route_id,
            reason |-> "Fastest available option. Consider safety precautions during travel." ]
     ELSE [ recommended_route_id |-> routes[1].route_id, reason |-> "Default route option." ]

\* _score_to_grade(score) for a score of num / den hundredths (den > 0)
score_to_grade(num, den) ==
  IF num >= 450 * den THEN "A"
  ELSE IF num >= 350 * den THEN "B"
  ELSE IF num >= 250 * den THEN "C"
  ELSE IF num >= 150 * den THEN "D"
  ELSE "F"

\* get_borough_comparison(): the score of each borough that has records, {} when
\* there is no dataset
get_borough_comparison(df) ==
  IF df.isNone \/ df.rows = << >> THEN << >>
  ELSE LET unique == { df.rows[i].borough : i \in 1..Len(df.rows) } \ { NA, "nan" }
       IN [ b \in unique |->
              LET borough_data == SelectSeq(df.rows, LAMBDA r : r.borough = b)
                  rating == generate_safety_rating(calculate_safety_metrics(borough_data))
              IN [ safety_score |-> rating.score, grade |-> rating.grade ] ]

\* _estimate_borough_from_coords(lat, lng), coordinates in thousandths of a degree
estimate_borough_from_coords(lat, lng) ==
  IF lat > 40800 /\ lng > -73900 THEN "BRONX"
  ELSE IF lat < 40700 /\ lng < -74000 THEN "STATEN ISLAND"
  ELSE IF lat < 40700 /\ lng > -73900 THEN "BROOKLYN"
  ELSE IF lng < -73900 THEN "QUEENS"
  ELSE "MANHATTAN"

borough_safety ==
  [ MANHATTAN |-> 400, BROOKLYN |-> 350, QUEENS |-> 380, BRONX |-> 320 ]
  @@ ( "STATEN ISLAND" :> 420 )

\* _estimate_safety_from_coords(lat, lng, borough)
estimate_safety_from_coords(borough, borough_data) ==
  IF borough \in DOMAIN borough_data THEN borough_data[borough].safety_score
  ELSE IF borough \in DOMAIN borough_safety THEN borough_safety[borough]
  ELSE 350

\* _create_route_segment(step); the midpoints are exact for the steps of the model
create_route_segment(step, borough_data) ==
  LET lat == (step.start_location.lat + step.end_location.lat) \div 2
      lng == (step.start_location.lng + step.end_location.lng) \div 2
      borough == estimate_borough_from_coords(lat, lng)
      safety_score == estimate_safety_from_coords(borough, borough_data)
  IN [ distance |-> step.distance,
       safety_score |-> safety_score,
       safety_grade |-> score_to_grade(safety_score, 1),
       neighborhood_info |-> [ borough |-> borough, complaint_count |-> 0 ] ]

\* round(num / den, 2) of a float quotient, in hundredths: the nearest
\* hundredth; when the exact quotient lies halfway between two hundredths the
\* double is a little above or below it, and up tells which
RoundFloat(num, den, up) ==
  LET q == num \div den
      r2 == 2 * (num % den)
  IN IF r2 > den THEN q + 1
     ELSE IF r2 < den THEN q
     ELSE IF up THEN q + 1 ELSE q

\* the segments of the steps of all legs, in order
RECURSIVE Segments(_, _)
Segments(legs, borough_data) ==
  IF legs = << >> THEN << >>
  ELSE [ k \in 1..Len(Head(legs).steps) |->
           create_route_segment(Head(legs).steps[k], borough_data) ]
       \o Segments(Tail(legs), borough_data)

RECURSIVE TotalSafetyScore(_)
TotalSafetyScore(segments) ==
  IF segments = << >> THEN 0
  ELSE Head(segments).safety_score * Head(segments).distance.value
       + TotalSafetyScore(Tail(segments))

RECURSIVE TotalDistance(_)
TotalDistance(segments) ==
  IF segments = << >> THEN 0
  ELSE Head(segments).distance.value + TotalDistance(Tail(segments))

\* f'route_{route_index}'
RouteIds == << "route_0", "route_1", "route_2", "route_3", "route_4", "route_5" >>

NoRoute == [ isNone |-> TRUE ]

\* variant: only the steps of the first leg enter the two totals
analyze_route_safety_first_leg(google_route, route_index, borough_data, up) ==
  LET legs == google_route.legs
      segments == Segments(legs, borough_data)
      weighed == Segments(<< Head(legs) >>, borough_data)
  IN IF legs = << >> THEN NoRoute
     ELSE IF \E k \in 1..Len(segments) : "value" \notin DOMAIN segments[k].distance
     THEN NoRoute
     ELSE
     LET total_safety_score == TotalSafetyScore(weighed)
         total_distance == TotalDistance(weighed)
         num == IF total_distance > 0 THEN total_safety_score ELSE 300
         den == IF total_distance > 0 THEN total_distance ELSE 1
     IN [ isNone |-> FALSE,
          route_id |-> RouteIds[route_index + 1],
          total_duration |-> legs[1].duration,
          overall_safety_score |-> RoundFloat(num, den, up),
          overall_safety_grade |-> score_to_grade(num, den),
          segments |-> segments,
          route_type |-> "analyzed",
          unrounded |-> [ num |-> num, den |-> den ] ]

\* _analyze_route_safety(google_route, route_index).  The score of line 105 is
\* the fraction num / den of hundredths, kept in the field unrounded; the
\* returned overall_safety_score is that fraction rounded to hundredths (up
\* is the direction of the rounding at a tie).
analyze_route_safety(google_route, route_index, borough_data, up) ==
  LET legs == google_route.legs
      segments == Segments(legs, borough_data)
  IN IF legs = << >> THEN NoRoute
     ELSE IF \E k \in 1..Len(segments) : "value" \notin DOMAIN segments[k].distance
     THEN NoRoute
     ELSE
     LET total_safety_score == TotalSafetyScore(segments)
         total_distance == TotalDistance(segments)
         num == IF total_distance > 0 THEN total_safety_score ELSE 300
         den == IF total_distance > 0 THEN total_distance ELSE 1
     IN [ isNone |-> FALSE,
          route_id |-> RouteIds[route_index + 1],
          total_duration |-> legs[1].duration,
          overall_safety_score |-> RoundFloat(num, den, up),
          overall_safety_grade |-> score_to_grade(num, den),
          segments |-> segments,
          route_type |-> "analyzed",
          unrounded |-> [ num |-> num, den |-> den ] ]

\* ------------------------------------------- the area filter on its own
FilterZipCodes == { None, "11211", "10001" }

\* radii of 0.1, 0.25, 0.5 and 4.1 miles
FilterRadii == { 100000, 250000, 500000, 4100000 }

\* answers of the geocoder: two locations, or no location
FilterGeocodes ==
  { [ kind |-> "point", lat |-> 40711, lon |-> Meridian ],
    [ kind |-> "point", lat |-> 40771, lon |-> Meridian ],
    [ kind |-> "none", lat |-> NaN, lon |-> NaN ] }

\* the analyzer after load_data() fetched one of the tables at time 0
FilterInit ==
  /\ \E t \in UpstreamTables :
       LET r == load_data([ crime_data |-> NoneFrame, data_cache |-> NoneFrame,
                            cache_timestamp |-> NoTimestamp, cached_borough |-> NoAttr ],
                          None, [ kind |-> "rows", rows |-> t ], 0, 1)
       IN /\ crime_data = r.st.crime_data
          /\ data_cache = r.st.data_cache
          /\ cache_timestamp = r.st.cache_timestamp
          /\ cached_borough = r.st.cached_borough
  /\ google_api_key \in BOOLEAN
  /\ now = 0
  /\ fetches = 1
  /\ \E zip_code \in FilterZipCodes, borough \in Scopes, address \in Addresses,
        radius_miles \in FilterRadii, geo \in FilterGeocodes :
       ret = [ op |-> "args", zip_code |-> zip_code, borough |-> borough,
               address |-> address, radius_miles |-> radius_miles, geo |-> geo ]

\* _filter_area_data(zip_code, borough, address, radius_miles)
FilterAreaData ==
  /\ ret.op = "args"
  /\ LET area == filter_area_data(crime_data, ret.zip_code, ret.borough, ret.address,
                                  ret.radius_miles, google_api_key, ret.geo)
     IN ret' = [ ret EXCEPT !.op = "filter_area_data" ] @@ [ area_data |-> area.rows ]
  /\ StoreUnchanged

SpecFilter == FilterInit /\ [][FilterAreaData]_vars

\* ---------------------------------------------- recent activity on its own
MaxCount == 7

\* a subset with the given numbers of records in the recent window (the first
\* one on its first day), in the window before it (the first on its first day,
\* the others on its last), before both windows, and without a date
ActivitySubset(recent, previous, older, undated) ==
  LET dates == [ k \in 1..recent |-> IF k = 1 THEN Today - days ELSE Today ]
               \o [ k \in 1..previous |-> IF k = 1 THEN Today - 2 * days
                                                    ELSE Today - days - 1 ]
               \o Repeat(Today - 2 * days - 1, older)
               \o Repeat(NaN, undated)
  IN clean_data([ k \in 1..Len(dates) |-> RawRow("Noise", "BROOKLYN", "11211", dates[k], NaN) ])

ActivityInit ==
  /\ StoreInit
  /\ \E recent \in 0..MaxCount, previous \in 0..MaxCount, older \in 0..1, undated \in 0..1 :
       ret = [ op |-> "subset", recent |-> recent, previous |-> previous,
               area_data |-> ActivitySubset(recent, previous, older, undated) ]

\* _get_recent_activity(area_data)
GetRecentActivity ==
  /\ ret.op = "subset"
  /\ ret' = [ ret EXCEPT !.op = "get_recent_activity" ]
            @@ [ recent_activity |-> get_recent_activity(ret.area_data, Today) ]
  /\ StoreUnchanged

SpecActivity == ActivityInit /\ [][GetRecentActivity]_vars

\* ------------------------------------------ the route categorizer on its own
MaxRoutes == 3

\* overall scores (hundredths) and durations (minutes) of the analyzed routes
RouteScores == { 300, 360, 400, 420 }
RouteDurations == { 15, 18, 20 }

\* the part of an analyzed route that the categorizer and the recommendation read
AnalyzedRoute(route_index, score, duration) ==
  [ route_id |-> RouteIds[route_index + 1],
    total_duration |-> [ value |-> duration ],
    overall_safety_score |-> score,
    route_type |-> "analyzed" ]

RoutesInit ==
  /\ StoreInit
  /\ \E n \in 0..MaxRoutes :
     \E score \in [ 1..n -> RouteScores ], duration \in [ 1..n -> RouteDurations ] :
       ret = [ op |-> "analyzed_routes",
               routes |-> [ i \in 1..n |-> AnalyzedRoute(i - 1, score[i], duration[i]) ] ]

\* sorted_routes = self._categorize_and_sort_routes(analyzed_routes)
CategorizeAndSortRoutes ==
  /\ ret.op = "analyzed_routes"
  /\ ret' = [ op |-> "categorize_and_sort_routes", routes |-> ret.routes,
              sorted_routes |-> categorize_and_sort_routes(ret.routes) ]
  /\ StoreUnchanged

\* recommendation = self._generate_recommendation(sorted_routes)
GenerateRecommendation ==
  /\ ret.op = "categorize_and_sort_routes"
  /\ ret' = [ ret EXCEPT !.op = "generate_recommendation" ]
            @@ [ recommendation |-> generate_recommendation(ret.sorted_routes) ]
  /\ StoreUnchanged

RoutesNext == CategorizeAndSortRoutes \/ GenerateRecommendation

SpecRoutes == RoutesInit /\ [][RoutesNext]_vars

\* ------------------------------------------- the route analysis on its own
MaxSteps == 3

\* midpoints in the Bronx, in Queens and in Manhattan by the estimate
StepLocations ==
  { [ lat |-> 40850, lng |-> -73850 ], [ lat |-> 40750, lng |-> -73950 ],
    [ lat |-> 40750, lng |-> -73850 ] }

\* step lengths in metres, and a distance that has no value
StepDistances ==
  { [ value |-> 0 ], [ value |-> 296 ], [ value |-> 304 ], [ text |-> "0.3 km" ] }

Step(location, distance) ==
  [ start_location |-> location, end_location |-> location, distance |-> distance ]

\* a route of the directions service: no legs, one leg, or two legs of which
\* the first has one step
GoogleRoutes ==
  { [ legs |-> << >> ] }
  \cup { [ legs |-> << [ steps |-> steps, duration |-> [ value |-> 900 ] ] >> ] :
           steps \in UNION { [ 1..n -> { Step(l, d) : l \in StepLocations, d \in StepDistances } ]
                             : n \in 0..MaxSteps } }
  \cup { [ legs |-> << [ steps |-> << steps[1] >>, duration |-> [ value |-> 300 ] ],
                      [ steps |-> Tail(steps), duration |-> [ value |-> 600 ] ] >> ] :
           steps \in UNION { [ 1..n -> { Step(l, d) : l \in StepLocations, d \in StepDistances } ]
                             : n \in 1..MaxSteps } }

\* the analyzer without a dataset, or after load_data() fetched a table
RouteInit ==
  /\ \/ StoreInit
     \/ /\ \E t \in UpstreamTables :
             LET r == load_data([ crime_data |-> NoneFrame, data_cache |-> NoneFrame,
                                  cache_timestamp |-> NoTimestamp, cached_borough |-> NoAttr ],
                                None, [ kind |-> "rows", rows |-> t ], 0, 1)
             IN /\ crime_data = r.st.crime_data
                /\ data_cache = r.st.data_cache
                /\ cache_timestamp = r.st.cache_timestamp
                /\ cached_borough = r.st.cached_borough
        /\ google_api_key = FALSE
        /\ now = 0
        /\ fetches = 1
  /\ \E google_route \in GoogleRoutes : ret = [ op |-> "google_route", route |-> google_route ]

\* analyzed_route = self._analyze_route_safety(route, 0)
AnalyzeRouteSafety ==
  /\ ret.op = "google_route"
  /\ \E up \in BOOLEAN :
       ret' = [ op |-> "analyze_route_safety", route |-> ret.route,
                analyzed_route |-> analyze_route_safety(ret.route, 0,
                                     get_borough_comparison(crime_data), up) ]
  /\ StoreUnchanged

SpecRoute == RouteInit /\ [][AnalyzeRouteSafety]_vars

\* --------------------------------------- the routing request as a whole
MaxCandidates == 3

\* routes of the directions service: without legs, one step in Queens, two
\* quicker steps through the Bronx and Manhattan, one slower step in Manhattan,
\* a step whose distance has no value, and a leg whose duration has no value
CandidateRoutes ==
  { [ legs |-> << >> ],
    [ legs |-> << [ steps |-> << Step([ lat |-> 40750, lng |-> -73950 ], [ value |-> 296 ]) >>,
                    duration |-> [ value |-> 900 ] ] >> ],
    [ legs |-> << [ steps |-> << Step([ lat |-> 40850, lng |-> -73850 ], [ value |-> 304 ]),
                                 Step([ lat |-> 40750, lng |-> -73850 ], [ value |-> 296 ]) >>,
                    duration |-> [ value |-> 600 ] ] >> ],
    [ legs |-> << [ steps |-> << Step([ lat |-> 40750, lng |-> -73850 ], [ value |-> 304 ]) >>,
                    duration |-> [ value |-> 1200 ] ] >> ],
    [ legs |-> << [ steps |-> << Step([ lat |-> 40750, lng |-> -73950 ], [ text |-> "0.3 km" ]) >>,
                    duration |-> [ value |-> 600 ] ] >> ],
    [ legs |-> << [ steps |-> << Step([ lat |-> 40750, lng |-> -73950 ], [ value |-> 296 ]) >>,
                    duration |-> [ text |-> "10 mins" ] ] >> ] }

\* outcomes of requests.get(self.directions_url, ...): the request raises, or a
\* response arrives with a status code and a body holding a status and routes
DirectionsAnswers ==
  { [ raised |-> TRUE, status_code |-> 0, status |-> "", routes |-> << >> ] }
  \cup { [ raised |-> FALSE, status_code |-> c, status |-> s, routes |-> rs ] :
           c \in { 200, 500 }, s \in { "OK", "ZERO_RESULTS" },
           rs \in UNION { [ 1..n -> CandidateRoutes ] : n \in 0..MaxCandidates } }

\* variant: the status of the body is not looked at
get_route_alternatives_any_status(answer) ==
  IF answer.raised THEN << >>
  ELSE IF answer.status_code # 200 THEN << >>
  ELSE answer.routes

\* _get_route_alternatives(origin, destination, mode)
get_route_alternatives(answer) ==
  IF answer.raised THEN << >>
  ELSE IF answer.status_code # 200 THEN << >>
  ELSE IF answer.status # "OK" THEN << >>
  ELSE answer.routes

\* _create_error_response(message) at time t
create_error_response(message, t) ==
  [ error |-> message,
    origin_address |-> "",
    destination_address |-> "",
    routes |-> << >>,
    analysis_timestamp |-> t,
    total_routes_analyzed |-> 0,
    recommendation |-> [ recommended_route_id |-> "",
                         reason |-> "No routes available due to error" ] ]

\* variant: candidates that could not be analyzed are left out
analyze_safe_routes_skip_failed(origin, destination, answer, borough_data, up, t) ==
  LET routes == get_route_alternatives(answer)
      analyzed_routes == SelectSeq([ i \in 1..Len(routes) |->
                                       analyze_route_safety(routes[i], i - 1, borough_data, up) ],
                                   LAMBDA r : ~r.isNone)
  IN IF routes = << >> THEN create_error_response("No routes found", t)
     ELSE IF \E i \in 1..Len(analyzed_routes) :
               "value" \notin DOMAIN analyzed_routes[i].total_duration
     THEN create_error_response("Route analysis failed", t)
     ELSE
     LET sorted_routes == categorize_and_sort_routes(analyzed_routes)
     IN [ origin_address |-> origin,
          destination_address |-> destination,
          routes |-> sorted_routes,
          analysis_timestamp |-> t,
          total_routes_analyzed |-> Len(sorted_routes),
          recommendation |-> generate_recommendation(sorted_routes) ]

\* analyze_safe_routes(origin, destination, mode) at time t.  The sorts of
\* _categorize_and_sort_routes raise on an entry that is None (TypeError) or
\* whose total_duration has no value (KeyError); the except clause of line 48
\* turns that into the error response, whose message is cut before the text of
\* the exception.
analyze_safe_routes(origin, destination, answer, borough_data, up, t) ==
  LET routes == get_route_alternatives(answer)
      analyzed_routes == [ i \in 1..Len(routes) |->
                             analyze_route_safety(routes[i], i - 1, borough_data, up) ]
  IN IF routes = << >> THEN create_error_response("No routes found", t)
     ELSE IF \E i \in 1..Len(analyzed_routes) :
               \/ analyzed_routes[i].isNone
               \/ "value" \notin DOMAIN analyzed_routes[i].total_duration
     THEN create_error_response("Route analysis failed", t)
     ELSE
     LET sorted_routes == categorize_and_sort_routes(analyzed_routes)
     IN [ origin_address |-> origin,
          destination_address |-> destination,
          routes |-> sorted_routes,
          analysis_timestamp |-> t,
          total_routes_analyzed |-> Len(sorted_routes),
          recommendation |-> generate_recommendation(sorted_routes) ]

\* a route analyzer over an analyzer without a dataset, and the answer the
\* directions service will give
ServiceInit ==
  /\ StoreInit
  /\ \E answer \in DirectionsAnswers : ret = [ op |-> "directions", answer |-> answer ]

\* route_analyzer.analyze_safe_routes(origin, destination)
AnalyzeSafeRoutes ==
  /\ ret.op = "directions"
  /\ \E up \in BOOLEAN :
       ret' = [ op |-> "analyze_safe_routes", answer |-> ret.answer,
                response |-> analyze_safe_routes("Bedford Ave", "Canal St", ret.answer,
                               get_borough_comparison(crime_data), up, now) ]
  /\ StoreUnchanged

SpecService == ServiceInit /\ [][AnalyzeSafeRoutes]_vars

\* ------------------------------------------ the outbound calls and their waits
\* requests.get(...) without a timeout argument waits without a limit
NoTimeout == -1

\* the timeout argument of each requests.get: the bulk fetch of _fetch_from_api,
\* the directions request of _get_route_alternatives, and the request of
\* _geocode_address, which passes none
timeout(call) ==
  CASE call = "fetch" -> 60
    [] call = "directions" -> 10
    [] call = "geocode" -> NoTimeout

\* an area-rating request or a route-analysis request
Requests ==
  { [ kind |-> "area", zip_code |-> z, borough |-> b, address |-> a ] :
      z \in ZipCodes, b \in AreaScopes, a \in Addresses }
  \cup { [ kind |-> "route", zip_code |-> None, borough |-> None, address |-> None ] }

\* answers of the directions service with at most one route
SingleAnswers == { a \in DirectionsAnswers : Len(a.routes) <= 1 }

Waiting(call, request) ==
  [ op |-> "waiting", call |-> call, waited |-> 0, request |-> request ]

Returned(request, response) ==
  [ op |-> "returned", request |-> request, response |-> response ]

\* get_area_safety_rating from line 352 on, the dataset being df: the filter
\* geocodes the address when there is one and a key, and the rating follows
AfterLoad(request, df) ==
  IF Truthy(request.address) /\ google_api_key
  THEN Waiting("geocode", request)
  ELSE Returned(request,
                area_safety_rating(df, request.zip_code, request.borough, request.address,
                                   500000, google_api_key,
                                   [ kind |-> "none", lat |-> NaN, lon |-> NaN ]))

\* the analyzer without a dataset, or after load_data() fetched a table, and
\* the request that arrives
CallsInit ==
  /\ \/ /\ crime_data = NoneFrame
        /\ data_cache = NoneFrame
        /\ cache_timestamp = NoTimestamp
        /\ cached_borough = NoAttr
        /\ fetches = 0
     \/ /\ \E t \in UpstreamTables :
             LET r == load_data([ crime_data |-> NoneFrame, data_cache |-> NoneFrame,
                                  cache_timestamp |-> NoTimestamp, cached_borough |-> NoAttr ],
                                None, [ kind |-> "rows", rows |-> t ], 0, 1)
             IN /\ crime_data = r.st.crime_data
                /\ data_cache = r.st.data_cache
                /\ cache_timestamp = r.st.cache_timestamp
                /\ cached_borough = r.st.cached_borough
        /\ fetches = 1
  /\ google_api_key \in BOOLEAN
  /\ now = 0
  /\ \E request \in Requests : ret = [ op |-> "request", request |-> request ]

\* the handler runs up to its first outbound call
Begin ==
  /\ ret.op = "request"
  /\ IF ret.request.kind = "route"
     THEN /\ ret' = Waiting("directions", ret.request)
          /\ UNCHANGED << crime_data, data_cache, cache_timestamp, cached_borough >>
     ELSE IF must_load(Store, ret.request.borough)
     THEN IF is_cache_valid(Store, ret.request.borough, now)
          THEN LET r == load_data(Store, ret.request.borough, NoResponse, now, fetches)
               IN /\ SetStore(r.st)
                  /\ ret' = AfterLoad(ret.request, r.st.crime_data)
          ELSE /\ ret' = Waiting("fetch", ret.request)
               /\ UNCHANGED << crime_data, data_cache, cache_timestamp, cached_borough >>
     ELSE /\ ret' = AfterLoad(ret.request, crime_data)
          /\ UNCHANGED << crime_data, data_cache, cache_timestamp, cached_borough >>
  /\ UNCHANGED << google_api_key, now, fetches >>

\* a second of the timeout of the blocking requests.get passes (a call
\* without a timeout has no timer to run down)
Wait ==
  /\ ret.op = "waiting"
  /\ timeout(ret.call) # NoTimeout
  /\ ret.waited < timeout(ret.call)
  /\ ret' = [ ret EXCEPT !.waited = @ + 1 ]
  /\ StoreUnchanged

\* requests.get returns what the upstream sent (or raises what the upstream
\* caused), and the handler runs on to its next outbound call or to its return
Answer ==
  /\ ret.op = "waiting"
  /\ CASE ret.call = "fetch" ->
            \E resp \in Responses(ret.request.borough) :
              LET r == load_data(Store, ret.request.borough, resp, now, fetches + 1)
              IN /\ SetStore(r.st)
                 /\ fetches' = fetches + 1
                 /\ ret' = AfterLoad(ret.request, r.st.crime_data)
       [] ret.call = "geocode" ->
            /\ \E geo \in GeocodeResults :
                 ret' = Returned(ret.request,
                          area_safety_rating(crime_data, ret.request.zip_code,
                                             ret.request.borough, ret.request.address,
                                             500000, google_api_key, geo))
            /\ UNCHANGED << crime_data, data_cache, cache_timestamp, cached_borough, fetches >>
       [] ret.call = "directions" ->
            /\ \E answer \in SingleAnswers, up \in BOOLEAN :
                 ret' = Returned(ret.request,
                          analyze_safe_routes("Bedford Ave", "Canal St", answer,
                                              get_borough_comparison(crime_data), up, now))
            /\ UNCHANGED << crime_data, data_cache, cache_timestamp, cached_borough, fetches >>
  /\ UNCHANGED << google_api_key, now >>

\* the timeout of the call expires: requests.get raises Timeout, a
\* RequestException
TimeOut ==
  /\ ret.op = "waiting"
  /\ timeout(ret.call) # NoTimeout
  /\ ret.waited = timeout(ret.call)
  /\ ret' = [ ret EXCEPT !.op = "raised" ]
  /\ StoreUnchanged

\* the handler runs on from the exception as after a request error
Resume ==
  /\ ret.op = "raised"
  /\ IF ret.call = "fetch"
     THEN LET r == load_data(Store, ret.request.borough,
                             [ kind |-> "error", rows |-> << >> ], now, fetches + 1)
          IN /\ SetStore(r.st)
             /\ fetches' = fetches + 1
             /\ ret' = AfterLoad(ret.request, r.st.crime_data)
     ELSE /\ ret' = Returned(ret.request,
                      analyze_safe_routes("Bedford Ave", "Canal St",
                        [ raised |-> TRUE, status_code |-> 0, status |-> "", routes |-> << >> ],
                        get_borough_comparison(crime_data), TRUE, now))
          /\ UNCHANGED << crime_data, data_cache, cache_timestamp, cached_borough, fetches >>
  /\ UNCHANGED << google_api_key, now >>

CallsNext == Begin \/ Wait \/ Answer \/ TimeOut \/ Resume

SpecCalls == CallsInit /\ [][CallsNext]_vars

\* the clock and the timers always go on; an upstream service need never answer
SpecCallsFair == SpecCalls /\ WF_vars(Wait) /\ WF_vars(TimeOut)

\* ------------------------------- two requests on one analyzer, interleaved
\* the boroughs of the two requests
ThreadBoroughs == { "BROOKLYN", "MANHATTAN" }

Threads == { 1, 2 }

\* a thread about to call get_area_safety_rating(borough=borough); raw, id,
\* used and response are its local values
Thread(borough) ==
  [ pc |-> "start", borough |-> borough,
    raw |-> [ ok |-> FALSE, malformed |-> FALSE, rows |-> << >> ], id |-> 0,
    used |-> NoAttr, response |-> [ safety_summary |-> "" ] ]

\* one SafetyAnalyzer without a dataset, shared by two request threads
ThreadsInit ==
  /\ crime_data = NoneFrame
  /\ data_cache = NoneFrame
  /\ cache_timestamp = NoTimestamp
  /\ cached_borough = NoAttr
  /\ google_api_key = FALSE
  /\ now = 0
  /\ fetches = 0
  /\ \E b1 \in ThreadBoroughs, b2 \in ThreadBoroughs :
       ret = [ op |-> "threads", th |-> << Thread(b1), Thread(b2) >> ]

Goto(i, pc) == ret' = [ ret EXCEPT !.th[i].pc = pc ]

\* get_area_safety_rating lines 346-350: is load_data to be called?
TStart(i) ==
  /\ ret.th[i].pc = "start"
  /\ Goto(i, IF must_load(Store, ret.th[i].borough) THEN "check" ELSE "filter")
  /\ StoreUnchanged

\* load_data lines 142-145: a valid cache entry becomes the current dataset
TCheck(i) ==
  /\ ret.th[i].pc = "check"
  /\ IF is_cache_valid(Store, ret.th[i].borough, now)
     THEN /\ crime_data' = data_cache
          /\ Goto(i, "filter")
     ELSE /\ Goto(i, "fetch")
          /\ UNCHANGED crime_data
  /\ UNCHANGED << data_cache, cache_timestamp, cached_borough, google_api_key, now, fetches >>

\* load_data lines 150-153: raw_data = self._fetch_from_api(borough=borough)
TFetch(i) ==
  /\ ret.th[i].pc = "fetch"
  /\ \E resp \in Responses(ret.th[i].borough) :
       LET raw == fetch_from_api(resp)
       IN ret' = [ ret EXCEPT !.th[i].raw = raw, !.th[i].id = fetches + 1,
                              !.th[i].pc = IF ~raw.ok \/ (~raw.malformed /\ raw.rows = << >>)
                                           THEN "filter" ELSE "set_data" ]
  /\ fetches' = fetches + 1
  /\ UNCHANGED << crime_data, data_cache, cache_timestamp, cached_borough, google_api_key, now >>

\* load_data lines 156-159 (and 169-174 when the body cannot be processed)
TSetData(i) ==
  /\ ret.th[i].pc = "set_data"
  /\ IF ret.th[i].raw.malformed
     THEN /\ crime_data' = FallbackFrame
          /\ Goto(i, "filter")
     ELSE /\ crime_data' = [ isNone |-> FALSE, rows |-> clean_data(ret.th[i].raw.rows),
                             fetch_id |-> ret.th[i].id, fetched_for |-> ret.th[i].borough,
                             fetched_at |-> now ]
          /\ Goto(i, "set_cache")
  /\ UNCHANGED << data_cache, cache_timestamp, cached_borough, google_api_key, now, fetches >>

\* load_data line 162: self.data_cache = self.crime_data.copy()
TSetCache(i) ==
  /\ ret.th[i].pc = "set_cache"
  /\ data_cache' = crime_data
  /\ Goto(i, "set_timestamp")
  /\ UNCHANGED << crime_data, cache_timestamp, cached_borough, google_api_key, now, fetches >>

\* load_data line 163: self.cache_timestamp = time.time()
TSetTimestamp(i) ==
  /\ ret.th[i].pc = "set_timestamp"
  /\ cache_timestamp' = now
  /\ Goto(i, "set_scope")
  /\ UNCHANGED << crime_data, data_cache, cached_borough, google_api_key, now, fetches >>

\* load_data line 164: self.cached_borough = borough
TSetScope(i) ==
  /\ ret.th[i].pc = "set_scope"
  /\ cached_borough' = ret.th[i].borough
  /\ Goto(i, "filter")
  /\ UNCHANGED << crime_data, data_cache, cache_timestamp, google_api_key, now, fetches >>

\* get_area_safety_rating lines 352-389 on the current self.crime_data; used
\* is the scope that dataset was fetched for
TFilter(i) ==
  /\ ret.th[i].pc = "filter"
  /\ ret' = [ ret EXCEPT !.th[i].pc = "done",
                         !.th[i].used = crime_data.fetched_for,
                         !.th[i].response =
                            area_safety_rating(crime_data, None, ret.th[i].borough, None,
                                               500000, google_api_key,
                                               [ kind |-> "none", lat |-> NaN, lon |-> NaN ]) ]
  /\ StoreUnchanged

\* no lock is taken anywhere in SafetyAnalyzer: either thread may take the next step
ThreadsNext ==
  \E i \in Threads :
    \/ TStart(i)
    \/ TCheck(i)
    \/ TFetch(i)
    \/ TSetData(i)
    \/ TSetCache(i)
    \/ TSetTimestamp(i)
    \/ TSetScope(i)
    \/ TFilter(i)

SpecThreads == ThreadsInit /\ [][ThreadsNext]_vars

\* ================================================================ claims
Grades == { "A", "B", "C", "D", "F" }
Categories == { "HIGH_CONCERN", "MEDIUM_CONCERN", "LOW_CONCERN", "INFRASTRUCTURE" }

\* C1: load_data called while the upstream source is unreachable (the request
\* raises or the status is not OK) returns True and leaves crime_data an empty
\* fallback record set.
C1_LoadFallsBackOnUpstreamError ==
  (ret.op = "load_data" /\ ret.fetched /\ ret.resp = "error")
    => (ret.result = TRUE /\ ~crime_data.isNone /\ crime_data.rows = << >>)

\* C2: _is_cache_valid(scope) holds iff a payload and timestamp exist, the entry is
\* strictly younger than 3600 s, and scope equals the scope the entry was fetched for.
C2_CacheValidIff ==
  \A scope \in Scopes \cup { "MANHATTAN", "" } :
    is_cache_valid(Store, scope, now)
      <=> /\ ~data_cache.isNone
          /\ cache_timestamp # NoTimestamp
          /\ now - data_cache.fetched_at < 3600
          /\ scope = data_cache.fetched_for

C2_Witness ==
  /\ ~data_cache.isNone
  /\ now - data_cache.fetched_at = 3600
  /\ data_cache.fetched_for = "BROOKLYN"

\* C3: a load_data that fetched successfully stores the payload in the cache under its
\* scope with the time of the load; a load_data of the same scope less than 3600 s
\* later returns True, makes no request and sets crime_data to the cached payload.
C3_Step ==
  (ret'.op = "load_data") =>
    /\ (ret'.fetched /\ ret'.result /\ ret'.resp = "rows")
         => /\ data_cache' = crime_data'
            /\ data_cache'.fetched_for = ret'.borough
            /\ data_cache'.fetch_id = fetches'
            /\ cached_borough' = ret'.borough
            /\ cache_timestamp' = now
            /\ fetches' = fetches + 1
    /\ (~data_cache.isNone /\ data_cache.fetched_for = ret'.borough
          /\ now - data_cache.fetched_at < 3600)
         => /\ ret'.result = TRUE
            /\ ~ret'.fetched
            /\ fetches' = fetches
            /\ crime_data' = data_cache
            /\ UNCHANGED << data_cache, cache_timestamp, cached_borough >>

C3_CachedLoadsDoNotFetch == [][C3_Step]_vars

C3_Witness ==
  /\ ret.op = "load_data" /\ ~ret.fetched /\ ret.result = TRUE
  /\ fetches = 1
  /\ now = data_cache.fetched_at + 3599
  /\ crime_data = data_cache

\* C4: when the dataset held at the call was fetched more than 3600 s ago, or for a
\* scope other than the requested borough (None included), get_area_safety_rating
\* makes an upstream request for the requested scope before it filters.
C4_Step ==
  ( /\ ret'.op = "get_area_safety_rating"
    /\ ~crime_data.isNone
    /\ crime_data.fetch_id # 0
    /\ \/ now - crime_data.fetched_at > 3600
       \/ crime_data.fetched_for # ret'.borough )
    => ret'.fetched

C4_StaleOrForeignDataRefetched == [][C4_Step]_vars

\* C5: refresh_data always makes an upstream request; the entry cached before the call
\* is dropped and never comes back; on success the cache holds the new payload for the
\* scope, otherwise the cache is empty so that the next load_data requests again.
C5_Step ==
  /\ (ret'.op = "refresh_data") =>
       /\ ret'.fetched
       /\ fetches' = fetches + 1
       /\ (~data_cache.isNone)
            => (data_cache'.isNone \/ data_cache'.fetch_id > data_cache.fetch_id)
       /\ (ret'.result /\ ret'.resp = "rows")
            => /\ ~data_cache'.isNone
               /\ data_cache'.fetch_id = fetches'
               /\ data_cache'.fetched_for = ret'.borough
               /\ data_cache'.fetched_at = now
               /\ cache_timestamp' = now
               /\ cached_borough' = ret'.borough
               /\ crime_data' = data_cache'
       /\ ~(ret'.result /\ ret'.resp = "rows")
            => /\ data_cache' = NoneFrame
               /\ cache_timestamp' = NoTimestamp
               /\ cached_borough' = NoAttr
  \* a cache entry is only ever replaced by the payload of a newer request
  /\ (data_cache' # data_cache /\ ~data_cache'.isNone)
       => (data_cache'.fetch_id = fetches' /\ fetches' = fetches + 1)

C5_RefreshAlwaysRefetches == [][C5_Step]_vars

C5_Witness ==
  /\ ret.op = "refresh_data" /\ ret.cache_was_valid /\ ret.fetched
  /\ ret.result = TRUE
  /\ data_cache.fetch_id = 2

\* C6: for every subset the rating's score lies in [1.0, 5.0] and its grade is the
\* letter the thresholds 4.5 / 3.5 / 2.5 / 1.5 give to that score.
C6_ScoreInRangeGradeConsistent ==
  (ret.op = "score") =>
    LET score == ret.safety_rating.score
        grade == ret.safety_rating.grade
    IN /\ 100 <= score /\ score <= 500
       /\ grade \in Grades
       /\ (grade = "A") <=> (score >= 450)
       /\ (grade = "B") <=> (score >= 350 /\ score < 450)
       /\ (grade = "C") <=> (score >= 250 /\ score < 350)
       /\ (grade = "D") <=> (score >= 150 /\ score < 250)
       /\ (grade = "F") <=> (score < 150)

\* a subset whose adjusted score falls below 1.0 and is clamped
C6_Witness ==
  /\ ret.op = "score"
  /\ ret.safety_metrics.total_complaints > 0
  /\ ret.safety_metrics.weighted_safety_score = 100
  /\ ret.safety_metrics.high_concern_ratio > 200
  /\ ret.safety_rating.score = 100
  /\ ret.safety_rating.grade = "F"

\* C7: for the empty subset the metrics report 0 complaints and weighted score 5.0, and
\* the rating is exactly 5.0 / A.
C7_EmptySubset ==
  (ret.op = "score" /\ ret.area_data = << >>) =>
    /\ ret.safety_metrics.total_complaints = 0
    /\ ret.safety_metrics.weighted_safety_score = 500
    /\ ret.safety_rating.score = 500
    /\ ret.safety_rating.grade = "A"

C7_Witness == ret.op = "score" /\ ret.area_data = << >> /\ ret.safety_rating.grade = "A"

\* the quantities C8 is stated in, read off the subset
SubsetSize(rows) == Len(rows)
WeightSum(rows) == SumWeights(rows)
HighCount(rows) == Cardinality({ k \in 1..Len(rows) : rows[k].safety_category = "HIGH_CONCERN" })
SpanDays(rows) ==
  LET ds == { rows[k].created_date : k \in 1..Len(rows) }
      hi == CHOOSE d \in ds : \A e \in ds : e <= d
      lo == CHOOSE d \in ds : \A e \in ds : e >= d
  IN IF hi - lo >= 1 THEN hi - lo ELSE 1
Clamp(x, lo, hi) == IF x < lo THEN lo ELSE IF x > hi THEN hi ELSE x

\* C8 as stated (exact arithmetic): with n rows, weight sum S, h HIGH_CONCERN rows and
\* d = max(1, days), n * score = clamp(clamp(5n - 1.5 S, n, 5n) - n * adj, n, 5n) and
\* the grade is the threshold letter of that exact value.
C8_ExactScore ==
  (ret.op = "score" /\ ret.area_data # << >>) =>
    LET rows == ret.area_data
        n == SubsetSize(rows)
        h == HighCount(rows)
        d == SpanDays(rows)
        base == Clamp(500 * n - 15 * WeightSum(rows), 100 * n, 500 * n)
        adj_r == IF 5 * h > n THEN 100 ELSE IF 10 * h > n THEN 50 ELSE 0
        adj_c == IF n > 2 * d THEN 50 ELSE IF n > d THEN 25 ELSE 0
        final == Clamp(base - n * (adj_r + adj_c), 100 * n, 500 * n)
    IN /\ n * ret.safety_rating.score = final
       /\ ret.safety_rating.grade =
            (IF final >= 450 * n THEN "A" ELSE IF final >= 350 * n THEN "B"
             ELSE IF final >= 250 * n THEN "C" ELSE IF final >= 150 * n THEN "D" ELSE "F")

\* C8 amended: the same formula over the rounded metrics - the base rounded to two
\* decimals, the ratio and the rate rounded to three - and the grade is the threshold
\* letter of the resulting score; one Assault and one Noise row give 1.0 / F.
C8_RoundedScore ==
  /\ (ret.op = "score" /\ ret.area_data # << >>) =>
       LET rows == ret.area_data
           n == SubsetSize(rows)
           h == HighCount(rows)
           d == SpanDays(rows)
           base == RoundHalfEven(Clamp(500 * n - 15 * WeightSum(rows), 100 * n, 500 * n), n)
           r == RoundHalfEven(1000 * h, n)
           c == RoundHalfEven(1000 * n, d)
           adj_r == IF r > 200 THEN 100 ELSE IF r > 100 THEN 50 ELSE 0
           adj_c == IF c > 2000 THEN 50 ELSE IF c > 1000 THEN 25 ELSE 0
           final == Clamp(base - adj_r - adj_c, 100, 500)
       IN /\ ret.safety_rating.score = final
          /\ ret.safety_rating.grade =
               (IF final >= 450 THEN "A" ELSE IF final >= 350 THEN "B"
                ELSE IF final >= 250 THEN "C" ELSE IF final >= 150 THEN "D" ELSE "F")
  /\ (ret.op = "score" /\ ret.area_data = SubsetOf(1, 0, 1, 0, 0)) =>
       /\ ret.safety_metrics.weighted_safety_score = 200
       /\ ret.safety_metrics.high_concern_ratio = 500
       /\ ret.safety_rating.score = 100
       /\ ret.safety_rating.grade = "F"

\* a subset whose exact base score has more than two decimals (8 over 7 rows)
C8_Witness ==
  /\ ret.op = "score"
  /\ Len(ret.area_data) = 7
  /\ WeightSum(ret.area_data) = 40
  /\ ret.safety_metrics.weighted_safety_score = 414

\* C9: for a non-empty subset high_concern_ratio is in [0, 1] and category_distribution
\* has one entry per category present, each count / size, the entries summing to 1.
RECURSIVE SumNum(_, _)
SumNum(dist, cats) ==
  IF cats = {} THEN 0
  ELSE LET c == CHOOSE x \in cats : TRUE
       IN dist[c].num + SumNum(dist, cats \ {c})

C9_RatioAndDistribution ==
  (ret.op = "score" /\ ret.area_data # << >>) =>
    LET rows == ret.area_data
        n == Len(rows)
        dist == ret.safety_metrics.category_distribution
    IN /\ 0 <= ret.safety_metrics.high_concern_ratio
       /\ ret.safety_metrics.high_concern_ratio <= 1000
       /\ DOMAIN dist = { rows[k].safety_category : k \in 1..n }
       /\ \A c \in DOMAIN dist :
            /\ dist[c].num = Cardinality({ k \in 1..n : rows[k].safety_category = c })
            /\ dist[c].den = n
            \* num / den sum to 1: the numerators sum to the common denominator
            /\ SumNum(dist, DOMAIN dist) = dist[c].den

C9_Witness ==
  /\ ret.op = "score"
  /\ Cardinality(DOMAIN ret.safety_metrics.category_distribution) = 4
  /\ ret.safety_metrics.high_concern_ratio > 0
  /\ ret.safety_metrics.high_concern_ratio < 1000

\* C10: _categorize_complaint returns, for every input, the first category in the
\* order HIGH, MEDIUM, LOW, INFRASTRUCTURE whose list holds the input exactly, and
\* INFRASTRUCTURE otherwise; safety_weight is the weight of that category.
ExpectedCategory(ct) ==
  IF ct = NA THEN "INFRASTRUCTURE"
  ELSE IF \E k \in 1..10 : safety_categories["HIGH_CONCERN"].types[k] = ct THEN "HIGH_CONCERN"
  ELSE IF \E k \in 1..7 : safety_categories["MEDIUM_CONCERN"].types[k] = ct THEN "MEDIUM_CONCERN"
  ELSE IF \E k \in 1..12 : safety_categories["LOW_CONCERN"].types[k] = ct THEN "LOW_CONCERN"
  ELSE "INFRASTRUCTURE"

C10_CategorizeTotal ==
  /\ (ret.op = "categorize") =>
       /\ ret.category \in Categories
       /\ ret.category = ExpectedCategory(ret.complaint_type)
  /\ (ret.op = "clean") =>
       /\ ret.row.safety_category \in Categories
       /\ ret.row.safety_category = ExpectedCategory(ret.row.complaint_type)
       /\ << ret.row.safety_category, ret.row.safety_weight >> \in
            { << "HIGH_CONCERN", 30 >>, << "MEDIUM_CONCERN", 20 >>,
              << "LOW_CONCERN", 10 >>, << "INFRASTRUCTURE", 5 >> }

\* a type that differs from a listed one only by case resolves to the default
C10_Witness ==
  /\ ret.op = "categorize"
  /\ ret.complaint_type = "assault"
  /\ ret.category = "INFRASTRUCTURE"


\* the distance of a record from a geocoded point, as the filter measures it
Abs(x) == IF x < 0 THEN -x ELSE x

WithinRadius(r, geo, radius_miles) ==
  /\ r.latitude # NaN /\ r.longitude # NaN
  /\ EarthMilliDegree * Abs(r.latitude - geo.lat) <= radius_miles

IsGeocoded == ret.address # None /\ google_api_key /\ ret.geo.kind = "point"

\* C11: when the address of a query is geocoded successfully, _filter_area_data
\* returns exactly the records within radius_miles of the geocoded point, in
\* their order: records without coordinates are never returned, the zip_code
\* and borough arguments do not change the result, and the result for a radius
\* is contained in the result for every larger radius.
C11_RadiusFilter ==
  (ret.op = "filter_area_data" /\ IsGeocoded) =>
    /\ ret.area_data = SelectSeq(crime_data.rows,
                                 LAMBDA r : WithinRadius(r, ret.geo, ret.radius_miles))
    /\ \A i \in 1..Len(ret.area_data) : ret.area_data[i].latitude # NaN
    /\ \A z \in FilterZipCodes, b \in Scopes :
         filter_area_data(crime_data, z, b, ret.address, ret.radius_miles,
                          google_api_key, ret.geo).rows = ret.area_data
    /\ \A r2 \in FilterRadii :
         r2 >= ret.radius_miles =>
           Range(ret.area_data) \subseteq
             Range(filter_area_data(crime_data, ret.zip_code, ret.borough, ret.address,
                                    r2, google_api_key, ret.geo).rows)

\* a geocoded query with a zip code and a borough that keeps some records of
\* other zip codes, leaves out a record without coordinates and a distant one
C11_Witness ==
  /\ ret.op = "filter_area_data" /\ IsGeocoded
  /\ ret.zip_code = "11211" /\ ret.borough = "BROOKLYN"
  /\ \E i \in 1..Len(ret.area_data) : ret.area_data[i].incident_zip # "11211"
  /\ \E i \in 1..Len(crime_data.rows) : crime_data.rows[i].latitude = NaN
  /\ Len(ret.area_data) > 0 /\ Len(ret.area_data) + 1 < Len(crime_data.rows)


\* the rating that get_area_safety_rating computes from the records matching
\* the zip_code and borough of the request alone
ZipBoroughSubset ==
  filter_area_data(crime_data, ret.zip_code, ret.borough, None, ret.radius_miles,
                   google_api_key, [ kind |-> "none", lat |-> NaN, lon |-> NaN ]).rows

GeocodingFailed ==
  /\ ret.op = "get_area_safety_rating"
  /\ Truthy(ret.address)
  /\ ~google_api_key \/ ret.geocoder \in { "none", "raise" }

\* C12: when the address of an area request cannot be geocoded (no API key, a
\* request error, a status other than OK, or status OK with an empty result
\* list), the request is answered from the records matching its zip_code and
\* borough: the rating is the one computed from that subset, or the
\* insufficient-data or fallback result when that subset is empty, and never
\* the error result.
C12_GeocodeFailureDegrades ==
  (GeocodingFailed /\ ~crime_data.isNone) =>
    /\ ret.response.safety_summary # "Error calculating safety rating"
    /\ ZipBoroughSubset # << >> =>
         /\ ret.response.safety_rating
              = generate_safety_rating(calculate_safety_metrics(ZipBoroughSubset))
         /\ ret.response.area_info.data_points = Len(ZipBoroughSubset)


\* C13: _get_recent_activity counts the records of the last 30 days and those
\* of the 30 days before (no record is in both), and labels the subset
\* 'stable' when the previous count is 0, otherwise 'increasing' iff
\* recent > 1.2 * previous, 'decreasing' iff recent < 0.8 * previous, and
\* 'stable' in every other case.
C13_TrendLabel ==
  ret.op = "get_recent_activity" =>
    LET a == ret.recent_activity
    IN /\ a.recent_complaints = ret.recent
       /\ ret.area_data # << >> => a.previous_period_complaints = ret.previous
       /\ ret.previous = 0 => a.trend = "stable"
       /\ ret.previous > 0 =>
            /\ a.trend = "increasing" <=> 10 * ret.recent > 12 * ret.previous
            /\ a.trend = "decreasing" <=> 10 * ret.recent < 8 * ret.previous
            /\ a.trend \in { "increasing", "decreasing", "stable" }

\* six recent records against five earlier ones: exactly 1.2 times, so stable
C13_Witness ==
  /\ ret.op = "get_recent_activity"
  /\ ret.recent = 6 /\ ret.previous = 5
  /\ ret.recent_activity.trend = "stable"
  /\ Len(ret.area_data) = 13


RouteLabels == { "safest", "fastest", "balanced" }

Categorized == ret.op \in { "categorize_and_sort_routes", "generate_recommendation" }

\* the emitted routes that carry a label
Labelled(label) ==
  { i \in 1..Len(ret.sorted_routes) : ret.sorted_routes[i].route_type = label }

\* C14: for a non-empty list of analyzed routes (their route_ids are pairwise
\* distinct), _categorize_and_sort_routes returns one to three routes, the
\* first one labelled 'safest', every label of safest/fastest/balanced at most
\* once and no route_id twice.
C14_CategorizedShape ==
  (Categorized /\ ret.routes # << >>) =>
    LET out == ret.sorted_routes
    IN /\ Len(out) \in 1..3
       /\ out[1].route_type = "safest"
       /\ \A i \in 1..Len(out) : out[i].route_type \in RouteLabels
       /\ \A label \in RouteLabels : Cardinality(Labelled(label)) <= 1
       /\ \A i, j \in 1..Len(out) : out[i].route_id = out[j].route_id => i = j

\* three routes of which the safest is also the fastest: two routes are emitted
C14_Witness ==
  /\ ret.op = "categorize_and_sort_routes"
  /\ Len(ret.routes) = 3
  /\ Len(ret.sorted_routes) = 2
  /\ \E i \in 1..3 : /\ \A j \in 1..3 : j # i =>
                          /\ ret.routes[j].overall_safety_score < ret.routes[i].overall_safety_score
                          /\ ret.routes[j].total_duration.value > ret.routes[i].total_duration.value
                     /\ ret.sorted_routes[1].route_id = ret.routes[i].route_id

\* the first route in input order with the highest score / the smallest duration
SafestIndex ==
  CHOOSE i \in 1..Len(ret.routes) :
    /\ \A j \in 1..Len(ret.routes) :
         ret.routes[j].overall_safety_score <= ret.routes[i].overall_safety_score
    /\ \A j \in 1..(i - 1) :
         ret.routes[j].overall_safety_score < ret.routes[i].overall_safety_score

FastestIndex ==
  CHOOSE i \in 1..Len(ret.routes) :
    /\ \A j \in 1..Len(ret.routes) :
         ret.routes[j].total_duration.value >= ret.routes[i].total_duration.value
    /\ \A j \in 1..(i - 1) :
         ret.routes[j].total_duration.value > ret.routes[i].total_duration.value

Relabelled(i, label) == [ ret.routes[i] EXCEPT !.route_type = label ]

\* C15: 'safest' is the route with the highest overall_safety_score, 'fastest'
\* the route with the smallest duration, emitted only when it is another route
\* than the safest, ties going to the route that comes first in the input;
\* with three or more routes the first input route that is neither of the two
\* is 'balanced', with fewer there is no balanced route.  Scores
\* [4.2, 3.0, 3.6] with durations [20, 15, 18] give safest = route 0,
\* fastest = route 1, balanced = route 2.
C15_CategorizedChoice ==
  (Categorized /\ ret.routes # << >>) =>
    LET out == ret.sorted_routes
        others == { i \in 1..Len(ret.routes) : i # SafestIndex /\ i # FastestIndex }
    IN /\ out[1] = Relabelled(SafestIndex, "safest")
       /\ IF FastestIndex # SafestIndex
          THEN Len(out) >= 2 /\ out[2] = Relabelled(FastestIndex, "fastest")
          ELSE Labelled("fastest") = { }
       /\ IF Len(ret.routes) >= 3
          THEN /\ others # { }
               /\ out[Len(out)] = Relabelled(CHOOSE i \in others : \A j \in others : i <= j,
                                             "balanced")
          ELSE Labelled("balanced") = { }
       /\ ( /\ Len(ret.routes) = 3
            /\ \A i \in 1..3 : /\ ret.routes[i].overall_safety_score = << 420, 300, 360 >>[i]
                               /\ ret.routes[i].total_duration.value = << 20, 15, 18 >>[i] )
          => [ i \in 1..Len(out) |-> << out[i].route_type, out[i].route_id >> ]
               = << << "safest", "route_0" >>, << "fastest", "route_1" >>,
                    << "balanced", "route_2" >> >>

\* the example of three routes, categorized
C15_Witness ==
  /\ ret.op = "categorize_and_sort_routes"
  /\ Len(ret.routes) = 3
  /\ \A i \in 1..3 : /\ ret.routes[i].overall_safety_score = << 420, 300, 360 >>[i]
                     /\ ret.routes[i].total_duration.value = << 20, 15, 18 >>[i]
  /\ Len(ret.sorted_routes) = 3

\* C16: _generate_recommendation recommends the 'safest' route, for its
\* excellent safety, iff that route's score is at least 4.0; otherwise the
\* 'balanced' route if there is one, otherwise the 'fastest' route if there is
\* one, otherwise the first route of the list.  The recommended id is the id
\* of a route of a non-empty list and the empty string for the empty list.
C16_Recommendation ==
  ret.op = "generate_recommendation" =>
    LET out == ret.sorted_routes
        rec == ret.recommendation
        IdOf(label) == out[CHOOSE i \in Labelled(label) : TRUE].route_id
        excellent == /\ Labelled("safest") # { }
                     /\ out[CHOOSE i \in Labelled("safest") : TRUE].overall_safety_score >= 400
    IN IF out = << >> THEN rec.recommended_route_id = ""
       ELSE /\ \E i \in 1..Len(out) : rec.recommended_route_id = out[i].route_id
            /\ rec.reason = "Recommended for excellent safety" <=> excellent
            /\ rec.recommended_route_id =
                 IF excellent THEN IdOf("safest")
                 ELSE IF Labelled("balanced") # { } THEN IdOf("balanced")
                 ELSE IF Labelled("fastest") # { } THEN IdOf("fastest")
                 ELSE out[1].route_id

\* a safest route below 4.0 with a balanced and a fastest route next to it
C16_Witness ==
  /\ ret.op = "generate_recommendation"
  /\ Len(ret.sorted_routes) = 3
  /\ ret.sorted_routes[1].overall_safety_score < 400
  /\ ret.recommendation.recommended_route_id = ret.sorted_routes[3].route_id
  /\ ret.sorted_routes[3].route_type = "balanced"


Analyzed == ret.op = "analyze_route_safety" /\ ~ret.analyzed_route.isNone

\* the steps of all legs of the route, in order
RECURSIVE AllSteps(_)
AllSteps(legs) == IF legs = << >> THEN << >> ELSE Head(legs).steps \o AllSteps(Tail(legs))

RECURSIVE SumOver(_, _)
SumOver(S, f) ==
  IF S = { } THEN 0 ELSE LET x == CHOOSE x \in S : TRUE IN f[x] + SumOver(S \ { x }, f)

\* C17: the overall score that _analyze_route_safety computes is the
\* distance-weighted mean sum(score_i * distance_i) / sum(distance_i) of the
\* segment scores over all steps of all legs, or 3.0 when the total distance
\* is 0; the mean and the two-decimal score returned for it lie between the
\* smallest and the largest segment score.
C17_WeightedMean ==
  Analyzed =>
    LET a == ret.analyzed_route
        seg == a.segments
        idx == 1..Len(seg)
        weighted == SumOver(idx, [ i \in idx |-> seg[i].safety_score * seg[i].distance.value ])
        distance == SumOver(idx, [ i \in idx |-> seg[i].distance.value ])
        Diff(x, y) == IF x >= y THEN x - y ELSE y - x
    IN /\ Len(seg) = Len(AllSteps(ret.route.legs))
       /\ \A i \in idx : seg[i].distance = AllSteps(ret.route.legs)[i].distance
       /\ IF distance = 0
          THEN a.unrounded = [ num |-> 300, den |-> 1 ] /\ a.overall_safety_score = 300
          ELSE /\ a.unrounded.num * distance = weighted * a.unrounded.den
               /\ 2 * Diff(a.overall_safety_score * distance, weighted) <= distance
               /\ \E i \in idx : seg[i].safety_score * distance <= weighted
               /\ \E i \in idx : seg[i].safety_score * distance >= weighted
               /\ \E i \in idx : seg[i].safety_score <= a.overall_safety_score
               /\ \E i \in idx : seg[i].safety_score >= a.overall_safety_score

\* two legs, with segments of different scores and lengths in both
C17_Witness ==
  /\ Analyzed
  /\ Len(ret.route.legs) = 2
  /\ Len(ret.analyzed_route.segments) = 3
  /\ ret.analyzed_route.segments[1].safety_score # ret.analyzed_route.segments[2].safety_score
  /\ ret.analyzed_route.segments[1].distance.value = 296
  /\ ret.analyzed_route.segments[2].distance.value = 304
  /\ ret.analyzed_route.segments[3].distance.value = 0


\* C18: the grade reported for a route and for each of its segments is the
\* letter that the area-rating thresholds give to the score reported with it
\* (for the route, the two-decimal overall_safety_score), and _score_to_grade
\* gives every score the letter that _generate_safety_rating gives it.
C18_GradeMatchesReportedScore ==
  Analyzed =>
    LET a == ret.analyzed_route
    IN /\ a.overall_safety_grade = GradeOf(a.overall_safety_score)
       /\ \A i \in 1..Len(a.segments) :
            a.segments[i].safety_grade = GradeOf(a.segments[i].safety_score)
       /\ \A score \in 100..500 : score_to_grade(score, 1) = GradeOf(score)


AreaResponse == ret.op = "get_area_safety_rating"

\* the responses built by _create_default_rating and _create_fallback_rating
Degraded ==
  \/ ret.response.safety_rating.description = "Insufficient Data"
  \/ "data_source" \in DOMAIN ret.response /\ ret.response.area_info.data_points = 0

\* C19: every response of get_area_safety_rating has the fields of the output
\* contract (area_info, safety_rating with a grade A-F that matches the score,
\* safety_metrics, recent_activity, each with all its fields), and the
\* insufficient-data, error and fallback responses have a data_source field.
C19_ResponseComplete ==
  AreaResponse =>
    LET r == ret.response
    IN /\ { "area_info", "safety_rating", "safety_metrics", "recent_activity" }
            \subseteq DOMAIN r
       /\ { "zip_code", "borough", "address", "radius_miles", "data_points" }
            \subseteq DOMAIN r.area_info
       /\ { "score", "grade", "description", "color" } \subseteq DOMAIN r.safety_rating
       /\ r.safety_rating.grade \in Grades
       /\ r.safety_rating.grade = GradeOf(r.safety_rating.score)
       /\ { "total_complaints", "weighted_safety_score", "complaints_per_day",
            "high_concern_ratio", "category_distribution" } \subseteq DOMAIN r.safety_metrics
       /\ { "recent_complaints", "previous_period_complaints", "trend", "days_analyzed" }
            \subseteq DOMAIN r.recent_activity
       /\ Degraded => "data_source" \in DOMAIN r

\* the subset that the request's filter selects from the dataset it ran on
RequestGeocode == CHOOSE g \in GeocodeResults : g.kind = ret.geocoder

RequestArea ==
  filter_area_data(crime_data, ret.zip_code, ret.borough, ret.address, ret.radius_miles,
                   google_api_key, RequestGeocode)

\* C20: when the filter of an area request matches no record, the response is
\* not the scorer's 5.0/A: on a non-empty dataset it is the 'Insufficient
\* Data' rating (3.0, C, data_points 0, total_complaints 0), on an empty
\* dataset the fallback rating of the borough (3.5/B unless the borough has
\* its own entry) with data_source 'Fallback rating (API unavailable)'.
C20_NoMatchRating ==
  (AreaResponse /\ ~RequestArea.raised /\ RequestArea.rows = << >>) =>
    LET r == ret.response
    IN /\ ~(r.safety_rating.score = 500 /\ r.safety_rating.grade = "A")
       /\ r.area_info.data_points = 0
       /\ r.safety_metrics.total_complaints = 0
       /\ IF crime_data.rows # << >>
          THEN /\ r.safety_rating.description = "Insufficient Data"
               /\ r.safety_rating.score = 300 /\ r.safety_rating.grade = "C"
               /\ r.safety_summary = "No crime data available for this area"
          ELSE /\ r.data_source = "Fallback rating (API unavailable)"
               /\ IF ret.borough \in DOMAIN borough_ratings
                  THEN /\ r.safety_rating.score = borough_ratings[ret.borough].score
                       /\ r.safety_rating.grade = borough_ratings[ret.borough].grade
                  ELSE r.safety_rating.score = 350 /\ r.safety_rating.grade = "B"

\* a zip code without records in a loaded dataset
C20_Witness ==
  /\ AreaResponse /\ ~RequestArea.raised /\ RequestArea.rows = << >>
  /\ crime_data.rows # << >>
  /\ ret.response.safety_rating.description = "Insufficient Data"

\* a request answered in fallback mode
C20_WitnessFallback ==
  /\ AreaResponse /\ ~RequestArea.raised /\ RequestArea.rows = << >>
  /\ ~crime_data.isNone /\ crime_data.rows = << >>
  /\ ret.borough = "Brooklyn"
  /\ ret.response.data_source = "Fallback rating (API unavailable)"

\* the request analyze_safe_routes answered
Answered == ret.op = "analyze_safe_routes"

\* the routing service was unreachable, answered with a code other than 200 or a
\* status other than OK, or returned no route
NoAlternatives ==
  \/ ret.answer.raised
  \/ ret.answer.status_code # 200
  \/ ret.answer.status # "OK"
  \/ ret.answer.routes = << >>

\* C21: analyze_safe_routes always returns a response; when the routing service
\* is unreachable, answers with a non-200 code or a non-OK status, or returns no
\* route, the response is the 'No routes found' result with routes = [],
\* total_routes_analyzed = 0 and an empty recommended_route_id; in every response
\* without an error total_routes_analyzed is the length of the routes list.
C21_NoRoutesFound ==
  Answered =>
    /\ { "routes", "total_routes_analyzed", "recommendation" } \subseteq DOMAIN ret.response
    /\ NoAlternatives =>
         /\ "error" \in DOMAIN ret.response
         /\ ret.response.error = "No routes found"
         /\ ret.response.routes = << >>
         /\ ret.response.total_routes_analyzed = 0
         /\ ret.response.recommendation.recommended_route_id = ""
    /\ "error" \notin DOMAIN ret.response =>
         ret.response.total_routes_analyzed = Len(ret.response.routes)

\* a body with routes under a status other than OK is answered 'No routes found'
C21_Witness ==
  /\ Answered
  /\ ~ret.answer.raised
  /\ ret.answer.status_code = 200
  /\ ret.answer.status = "ZERO_RESULTS"
  /\ Len(ret.answer.routes) = 2
  /\ ret.response.error = "No routes found"

\* three candidates are answered with three categorized routes
C21_WitnessSuccess ==
  /\ Answered
  /\ "error" \notin DOMAIN ret.response
  /\ ret.response.total_routes_analyzed = 3
  /\ Len(ret.response.routes) = 3

\* the candidate has no legs, or one of its steps has no distance value
Unanalyzable(google_route) ==
  \/ google_route.legs = << >>
  \/ \E l \in 1..Len(google_route.legs) :
       \E s \in 1..Len(google_route.legs[l].steps) :
         "value" \notin DOMAIN google_route.legs[l].steps[s].distance

\* C30: if a candidate route returned by the routing service cannot be analyzed
\* (no legs, or a step without a distance value), analyze_safe_routes returns the
\* error response with routes = [] and total_routes_analyzed = 0 for the whole
\* request, whatever the other candidates are; no returned routes list holds a
\* missing (None) entry.
C30_OneFailureFailsRequest ==
  Answered =>
    /\ (~NoAlternatives /\ \E i \in 1..Len(ret.answer.routes) : Unanalyzable(ret.answer.routes[i]))
         => /\ "error" \in DOMAIN ret.response
            /\ ret.response.error = "Route analysis failed"
            /\ ret.response.routes = << >>
            /\ ret.response.total_routes_analyzed = 0
    /\ \A k \in 1..Len(ret.response.routes) : ~ret.response.routes[k].isNone

\* one candidate without legs between two candidates that can be analyzed
C30_Witness ==
  /\ Answered
  /\ ~NoAlternatives
  /\ Len(ret.answer.routes) = 3
  /\ ~Unanalyzable(ret.answer.routes[1])
  /\ "value" \in DOMAIN ret.answer.routes[1].legs[1].duration
  /\ ret.answer.routes[2].legs = << >>
  /\ ~Unanalyzable(ret.answer.routes[3])
  /\ "value" \in DOMAIN ret.answer.routes[3].legs[1].duration
  /\ ret.response.error = "Route analysis failed"

\* a call with a timeout argument that is waiting ends its wait
TimedCallsComplete ==
  (ret.op = "waiting" /\ timeout(ret.call) # NoTimeout)
    ~> (ret.op # "waiting" \/ timeout(ret.call) = NoTimeout)

\* C22: every area-rating and route-analysis call terminates even if an
\* upstream service never answers: each outbound HTTP call (bulk incident fetch,
\* geocoding, directions) has a bounded timeout, so that a handler that waits
\* for an upstream service stops waiting.
C22_EveryCallTerminates == (ret.op = "waiting") ~> (ret.op # "waiting")

\* each finished request was rated on a dataset fetched for its own borough
\* (or on no dataset, or on the fallback dataset)
RatingsFromOwnDataset ==
  \A i \in Threads :
    ret.th[i].pc = "done" => ret.th[i].used \in { NoAttr, ret.th[i].borough }

\* when both requests are finished the cached scope is the scope the cached
\* payload was fetched for
CachedScopeDescribesPayload ==
  ((\A i \in Threads : ret.th[i].pc = "done") /\ ~data_cache.isNone)
    => cached_borough = data_cache.fetched_for

\* C23: the cache check, fetch and store of load_data and the load-then-filter
\* sequence of get_area_safety_rating are mutually exclusive across threads
\* sharing one SafetyAnalyzer: under any interleaving of two requests for
\* different boroughs, each request's rating is computed from the dataset loaded
\* for its own borough, and the cached scope describes the cached payload.
C23_RequestsIsolated ==
  (ret.th[1].borough # ret.th[2].borough)
    => (RatingsFromOwnDataset /\ CachedScopeDescribesPayload)

\* the borough strings of the model with their case folded
CaseFolded(s) ==
  CASE s \in { "BROOKLYN", "Brooklyn" } -> "brooklyn"
    [] s \in { "MANHATTAN", "Manhattan" } -> "manhattan"
    [] OTHER -> s

\* C24: when no geocoded address is used, _filter_area_data returns the records
\* that satisfy every given criterion together: string equality with the postal
\* code if one is given and case-insensitive equality with the borough if one is
\* given; with neither criterion it returns the full incident set, and a query
\* matching nothing returns an empty subset.
C24_ZipAndBorough ==
  (ret.op = "filter_area_data" /\ ~IsGeocoded) =>
    /\ ret.area_data =
         SelectSeq(crime_data.rows,
                   LAMBDA r : /\ ret.zip_code # None => r.incident_zip = ret.zip_code
                              /\ ret.borough # None
                                   => CaseFolded(r.borough) = CaseFolded(ret.borough))
    /\ (ret.zip_code = None /\ ret.borough = None) => ret.area_data = crime_data.rows
    /\ (\A k \in 1..Len(crime_data.rows) :
          ret.zip_code # None /\ crime_data.rows[k].incident_zip # ret.zip_code)
         => ret.area_data = << >>

\* a postal code and a borough in another case select the records of both
C24_Witness ==
  /\ ret.op = "filter_area_data"
  /\ ret.address = None
  /\ ret.zip_code = "11211"
  /\ ret.borough = "Brooklyn"
  /\ ret.area_data # << >>
  /\ Len(ret.area_data) < Len(SelectSeq(crime_data.rows, LAMBDA r : r.borough = "BROOKLYN"))

\* a postal code that no record has selects nothing
C24_WitnessEmpty ==
  /\ ret.op = "filter_area_data"
  /\ ~IsGeocoded
  /\ ret.zip_code = "10001"
  /\ crime_data.rows # << >>
  /\ ret.area_data = << >>

\* C25: after any sequence of load_data, refresh_data and get_area_safety_rating
\* calls with any upstream outcomes, data_cache is None if and only if
\* cache_timestamp is None, and whenever data_cache is not None the cached_borough
\* attribute is defined and equals the scope argument of the load that stored
\* that payload.
C25_CacheFieldsConsistent ==
  /\ data_cache.isNone <=> cache_timestamp = NoTimestamp
  /\ ~data_cache.isNone =>
       /\ cached_borough # NoAttr
       /\ cached_borough = data_cache.fetched_for
       /\ cache_timestamp = data_cache.fetched_at

\* a refresh whose fetch failed after an earlier load had filled the cache
C25_Witness ==
  /\ ret.op = "refresh_data"
  /\ ret.result = FALSE
  /\ fetches = 2
  /\ ~crime_data.isNone
  /\ data_cache.isNone
  /\ cache_timestamp = NoTimestamp

\* a cache entry for a borough that outlived a later load ending in fallback mode
C25_WitnessKept ==
  /\ ret.op = "load_data"
  /\ ret.resp = "malformed"
  /\ crime_data = FallbackFrame
  /\ ~data_cache.isNone
  /\ cached_borough = "Brooklyn"

\* C26: when the cache is not valid and the upstream fetch yields nothing (a
\* request error, or a response with zero records), load_data returns False and
\* leaves crime_data, data_cache, cache_timestamp and cached_borough as they
\* were; a zero-record result is never cached.
C26_Step ==
  (/\ ret'.op = "load_data"
   /\ ret'.fetched
   /\ ret'.resp = "error" \/ (ret'.resp = "rows" /\ ret'.records = 0))
    => /\ ret'.result = FALSE
       /\ UNCHANGED << crime_data, data_cache, cache_timestamp, cached_borough >>

InFallbackMode ==
  /\ crime_data = FallbackFrame
  /\ data_cache.isNone
  /\ cached_borough = NoAttr

\* a call of get_area_safety_rating in fallback mode makes no upstream fetch
C27_NoFetchStep ==
  (InFallbackMode /\ ret'.op = "get_area_safety_rating" /\ now' = now)
    => (fetches' = fetches /\ ~ret'.fetched)

C27_NoFetchInFallbackMode == [][C27_NoFetchStep]_vars

\* C27: if the first load ends in fallback mode (an empty dataset and no cache
\* entry), no later get_area_safety_rating call, for any arguments, attempts an
\* upstream fetch, and every such call returns the static fallback rating, until
\* load_data or refresh_data is invoked.
C27_Step ==
  (InFallbackMode /\ ret'.op = "get_area_safety_rating" /\ now' = now)
    => /\ fetches' = fetches
       /\ ret'.response = create_fallback_rating(ret'.zip_code, ret'.borough, ret'.address)

C27_FallbackModeIsSticky == [][C27_Step]_vars

C28_WitnessFilter ==
  /\ AreaResponse
  /\ ~crime_data.isNone
  /\ crime_data.rows # << >>
  /\ ret.geocoder = "raise"
  /\ ret.response.safety_summary = "Error calculating safety rating"

\* C29: for every non-empty incident subset the final score is at most 4.25
\* (the least category weight is 0.5, so the base is at most 5.0 - 0.75), hence
\* grade A is never produced for an area that has an incident; the score 5.0 / A
\* arises only from the empty subset.
C29_NonEmptyAtMostB ==
  (ret.op = "score") =>
    /\ \A c \in DOMAIN safety_categories : safety_categories[c].weight >= 5
    /\ ret.area_data # << >> =>
         /\ ret.safety_metrics.weighted_safety_score <= 425
         /\ ret.safety_rating.score <= 425
         /\ ret.safety_rating.grade # "A"
    /\ (ret.safety_rating.score = 500 \/ ret.safety_rating.grade = "A")
         => ret.area_data = << >>

\* infrastructure complaints alone, at most one a day, reach the bound
C29_Witness ==
  /\ ret.op = "score"
  /\ Len(ret.area_data) = 3
  /\ ret.safety_rating.score = 425
  /\ ret.safety_rating.grade = "B"

====
